---- MODULE Spec2Model ----
(***************************************************************************)
(* A model of the ContentOps backend (express server): the rate limiter,   *)
(* the fetch wrapper with timeout and retry, the TTL caches, the listing   *)
(* fetch with in-flight deduplication, the widget protector, and the       *)
(* smartcheck pipeline with its batched search.                            *)
(*                                                                         *)
(* The server is one event loop.  Every action below is one run of        *)
(* synchronous code between two suspension points (await) of a handler,   *)
(* or one event of the environment (a timer firing, an upstream answer,   *)
(* the clock advancing).                                                   *)
(***************************************************************************)
EXTENDS Integers, Sequences, FiniteSets, TLC

VARIABLES
    now,        \* Date.now(), in milliseconds
    ticks,      \* how many times the clock has advanced (bounds the run)
    rateMap,    \* rateMap: ip -> { count, reset }, or NoRecord
    rateRet,    \* the last call of rateOk: its ip, its return value, its time
    fr,         \* one call of fetchR: its arguments, loop index and outcome
    blogCache,      \* collectionId -> { data, ts }, or NoEntry
    searchCache,    \* query key -> { data, ts }, or NoEntry
    analysisCache,  \* content key -> { data, ts }, or NoEntry
    cacheRet,       \* the last call of cacheGet: its store, key, time and return value
    wpc,        \* how far the content has gone: input, protected, rewritten, restored
    html,       \* the content handed to protectWidgets
    safe,       \* protectWidgets(html).html
    widgets,    \* protectWidgets(html).widgets
    llm,        \* what the rewriting service did with the protected content
    rewritten,  \* the text the rewriting service returned
    restored,   \* restoreWidgets(rewritten, widgets)
    reqs,       \* the requests to /api/webflow: where each handler stands, what it holds
    promises,   \* the fetchPromise of every listing fetch started: its producer's state
    inflight,   \* inflight: collectionId -> the fetchPromise registered, 0 when none
    mq,         \* the microtask queue: continuations that run before any other event
    upstream,   \* the item store: collectionId -> the version of its content
    runs,       \* the requests to /api/smartcheck: where each handler stands, what it holds
    srch,       \* the search step of one smartcheck run: its loop, its calls, its results
    qgen,       \* the parse of one answer of the query-generation call, and what follows
    look,       \* braveSearch / googleSearch called one call after the other: the last call
    solo,       \* one smartcheck request with its timers and its outstanding calls
    pg,         \* one listing fetch: its page loop, the items it holds, what it returned
    resp,       \* one response of the LLM service and the text a stage took from it
    proxy,      \* the listing proxy of server.js: blogCache.isRefreshing, the cache, its handlers
    unsweptCaches,  \* the three stores as they would be had no cleanup pass run
    unsweptRate     \* rateMap as it would be had no cleanup pass run

rateVars == <<rateMap, rateRet>>
fetchVars == <<fr>>
cacheVars == <<blogCache, searchCache, analysisCache, cacheRet>>
widgetVars == <<wpc, html, safe, widgets, llm, rewritten, restored>>
listVars == <<reqs, promises, inflight, mq, upstream>>
smartVars == <<runs, srch, qgen>>
unitVars == <<look, solo, pg, resp, proxy>>
shadowVars == <<unsweptCaches, unsweptRate>>
vars == <<now, ticks, rateMap, rateRet, fr, blogCache, searchCache, analysisCache, cacheRet,
          wpc, html, safe, widgets, llm, rewritten, restored,
          reqs, promises, inflight, mq, upstream, runs, srch, qgen,
          look, solo, pg, resp, proxy, unsweptCaches, unsweptRate>>

(***************************************************************************)
(* Bounds of the model                                                     *)
(***************************************************************************)
MaxTicks == 2
MaxRetries == 5
MaxPieces == 2
MaxReqs == 2
MaxPages == 2
MaxQueries == 9
MaxFailures == 1
MaxTokens == 4
MaxRuns == 2
MaxBlocks == 3

Min(a, b) == IF a <= b THEN a ELSE b

RECURSIVE Pow2(_)
Pow2(n) == IF n <= 0 THEN 1 ELSE 2 * Pow2(n - 1)

(***************************************************************************)
(* RATE LIMITING                                                           *)
(***************************************************************************)
RATE_WINDOW == 60000
RATE_MAX == 30

Clients == {"ipA", "ipB"}
NoRecord == [count |-> 0, reset |-> -1]

\* rateOk(ip) at time t on the map m: the value returned and the map left.
rateOk_admitsAtMax(m, ip, t) ==
    IF m[ip] = NoRecord \/ t > m[ip].reset
    THEN [ret |-> TRUE, map |-> [m EXCEPT ![ip] = [count |-> 1, reset |-> t + RATE_WINDOW]]]
    ELSE IF m[ip].count > RATE_MAX
         THEN [ret |-> FALSE, map |-> m]
         ELSE [ret |-> TRUE, map |-> [m EXCEPT ![ip].count = @ + 1]]

rateOk_keepsWindow(m, ip, t) ==
    IF m[ip] = NoRecord
    THEN [ret |-> TRUE, map |-> [m EXCEPT ![ip] = [count |-> 1, reset |-> t + RATE_WINDOW]]]
    ELSE IF t > m[ip].reset
         THEN [ret |-> TRUE, map |-> [m EXCEPT ![ip].count = 1]]
         ELSE IF m[ip].count >= RATE_MAX
              THEN [ret |-> FALSE, map |-> m]
              ELSE [ret |-> TRUE, map |-> [m EXCEPT ![ip].count = @ + 1]]

rateOk_denialRestartsWindow(m, ip, t) ==
    IF m[ip] = NoRecord \/ t > m[ip].reset
    THEN [ret |-> TRUE, map |-> [m EXCEPT ![ip] = [count |-> 1, reset |-> t + RATE_WINDOW]]]
    ELSE IF m[ip].count >= RATE_MAX
         THEN [ret |-> FALSE, map |-> [m EXCEPT ![ip].reset = t + RATE_WINDOW]]
         ELSE [ret |-> TRUE, map |-> [m EXCEPT ![ip].count = @ + 1]]

rateOk(m, ip, t) ==
    IF m[ip] = NoRecord \/ t > m[ip].reset
    THEN [ret |-> TRUE, map |-> [m EXCEPT ![ip] = [count |-> 1, reset |-> t + RATE_WINDOW]]]
    ELSE IF m[ip].count >= RATE_MAX
         THEN [ret |-> FALSE, map |-> m]
         ELSE [ret |-> TRUE, map |-> [m EXCEPT ![ip].count = @ + 1]]

\* The cleanup timer of rateMap: deletes the records whose window is over.
rateSweep_atReset(m, t) ==
    [ip \in Clients |-> IF m[ip] # NoRecord /\ t >= m[ip].reset THEN NoRecord ELSE m[ip]]

rateSweep(m, t) ==
    [ip \in Clients |-> IF m[ip] # NoRecord /\ t > m[ip].reset THEN NoRecord ELSE m[ip]]

NoCall == [ip |-> "none", ret |-> FALSE, at |-> -1, before |-> NoRecord, after |-> NoRecord]

RateInit ==
    /\ rateMap = [ip \in Clients |-> NoRecord]
    /\ rateRet = NoCall

\* One request of client ip reaches a handler, which calls rateOk(ip).
RateOkCall(ip) ==
    /\ rateMap' = rateOk(rateMap, ip, now).map
    /\ rateRet' = [ip |-> ip, ret |-> rateOk(rateMap, ip, now).ret, at |-> now,
                   before |-> rateMap[ip], after |-> rateMap'[ip]]

RateSweep ==
    /\ rateMap' = rateSweep(rateMap, now)
    /\ rateMap' # rateMap
    /\ UNCHANGED rateRet

\* The clock advances: by a millisecond, or by a whole rate window.
RateTick ==
    /\ ticks < MaxTicks
    /\ \E d \in {1, RATE_WINDOW} : now' = now + d
    /\ ticks' = ticks + 1

(***************************************************************************)
(* FETCH WITH TIMEOUT + RETRY                                              *)
(***************************************************************************)
Statuses == {200, 404, 429, 500, 503}
Failures == {"TypeError", "AbortError"}   \* fetch rejected; ctrl.abort() fired

\* errs, resps, waits: what the attempts so far threw, what they yielded, and the
\* delays awaited between them; status, thrown: what the call returned or threw.
FrIdle == [pc |-> "idle", retries |-> 0, i |-> 0, errs |-> <<>>, resps |-> <<>>,
           waits |-> <<>>, status |-> 0, thrown |-> "none"]

\* The delay of the setTimeout that fetchR awaits after failed attempt i.
backoff_noCap(i) == 1000 * Pow2(i - 1)

backoff(i) == Min(1000 * Pow2(i - 1), 5000)

\* What the catch block of attempt i does: rethrow on the last attempt, wait otherwise.
onCatch_extraWait(f, e) ==
    [f EXCEPT !.errs = Append(@, e), !.pc = "backoff", !.waits = Append(@, backoff(f.i))]

onCatch(f, e) ==
    IF f.i = f.retries
    THEN [f EXCEPT !.errs = Append(@, e), !.pc = "threw", !.thrown = e]
    ELSE [f EXCEPT !.errs = Append(@, e), !.pc = "backoff", !.waits = Append(@, backoff(f.i))]

\* What fetchR does when the awaited fetch of attempt i resolves with a response.
onResponse_retries5xx(f, s) ==
    IF s >= 500 /\ f.i < f.retries
    THEN [f EXCEPT !.resps = Append(@, s), !.pc = "backoff",
                   !.waits = Append(@, backoff(f.i))]
    ELSE [f EXCEPT !.resps = Append(@, s), !.pc = "returned", !.status = s]

onResponse(f, s) == [f EXCEPT !.resps = Append(@, s), !.pc = "returned", !.status = s]

FetchInit == fr = FrIdle

\* fetchR(url, opts, timeout, retries) is called: the loop starts attempt 1.
FetchRCall(retries) ==
    /\ fr.pc \in {"idle", "returned", "threw"}
    /\ fr' = [FrIdle EXCEPT !.pc = "attempt", !.retries = retries, !.i = 1]

\* The fetch of the current attempt resolves with a response of any status.
FetchResolves(s) ==
    /\ fr.pc = "attempt"
    /\ fr' = onResponse(fr, s)

\* The fetch of the current attempt rejects (transport failure, or the abort timer fired).
FetchRejects(e) ==
    /\ fr.pc = "attempt"
    /\ fr' = onCatch(fr, e)

\* The backoff timer fires: the loop goes on to the next attempt.
BackoffElapses ==
    /\ fr.pc = "backoff"
    /\ fr' = [fr EXCEPT !.pc = "attempt", !.i = @ + 1]

(***************************************************************************)
(* MULTI-LAYER CACHE                                                       *)
(***************************************************************************)
BLOG_CACHE_TTL == 10 * 60 * 1000
SEARCH_CACHE_TTL == 60 * 60 * 1000
ANALYSIS_CACHE_TTL == 24 * 60 * 60 * 1000

Collections == {"c1"}        \* keys of blogCache
SearchKeys == {"b:q1"}       \* keys of searchCache
ContentKeys == {"h1"}        \* keys of analysisCache

\* A map holds under a key either nothing, <<>>, or one entry, <<[data, ts]>>; a
\* get returns null, <<>>, or the data, <<data>>.
NoEntry == <<>>
Null == <<>>

Stores == {"blog", "search", "analysis"}
KeysOf(store) == CASE store = "blog" -> Collections
                   [] store = "search" -> SearchKeys
                   [] store = "analysis" -> ContentKeys
TtlOf(store) == CASE store = "blog" -> BLOG_CACHE_TTL
                  [] store = "search" -> SEARCH_CACHE_TTL
                  [] store = "analysis" -> ANALYSIS_CACHE_TTL
MapOf(store) == CASE store = "blog" -> blogCache
                  [] store = "search" -> searchCache
                  [] store = "analysis" -> analysisCache
\* The values stored: listings (the upstream version they were read at), result
\* lists of a search, results of a pipeline run.
DataOf(store) == CASE store = "blog" -> {[ver |-> 0], [ver |-> 1]}
                   [] store = "search" -> {"results1", "results2"}
                   [] store = "analysis" -> {"analysis1", "analysis2"}

\* cacheGet(map, key, ttl) at time t: null when the key is missing or the entry
\* is older than ttl, the stored data otherwise.
cacheGet(map, key, ttl, t) ==
    IF map[key] = NoEntry \/ (t - map[key][1].ts) > ttl THEN Null ELSE <<map[key][1].data>>

\* cacheSet(map, key, data) at time t: the map it leaves.
cacheSet_keepsEntry(map, key, data, t) ==
    IF map[key] # NoEntry THEN map ELSE [map EXCEPT ![key] = <<[data |-> data, ts |-> t]>>]

cacheSet(map, key, data, t) == [map EXCEPT ![key] = <<[data |-> data, ts |-> t]>>]

\* One pass of the cleanup timer over one store at time t.
sweepStore_atTtl(map, ttl, t) ==
    [k \in DOMAIN map |->
        IF map[k] # NoEntry /\ t - map[k][1].ts >= ttl THEN NoEntry ELSE map[k]]

sweepStore(map, ttl, t) ==
    [k \in DOMAIN map |->
        IF map[k] # NoEntry /\ t - map[k][1].ts > ttl THEN NoEntry ELSE map[k]]

NoGet == [store |-> "none", key |-> "none", at |-> -1, entry |-> NoEntry, ret |-> Null]

CacheInit ==
    /\ blogCache = [k \in Collections |-> NoEntry]
    /\ searchCache = [k \in SearchKeys |-> NoEntry]
    /\ analysisCache = [k \in ContentKeys |-> NoEntry]
    /\ cacheRet = NoGet

\* A handler stores a value: cacheSet(<store>, key, data).
CacheSetCall(store, key, data) ==
    /\ blogCache' = IF store = "blog" THEN cacheSet(blogCache, key, data, now) ELSE blogCache
    /\ searchCache' = IF store = "search" THEN cacheSet(searchCache, key, data, now)
                      ELSE searchCache
    /\ analysisCache' = IF store = "analysis" THEN cacheSet(analysisCache, key, data, now)
                        ELSE analysisCache
    /\ UNCHANGED cacheRet

\* A handler reads a value: cacheGet(<store>, key, <the store's TTL>).
CacheGetCall(store, key) ==
    /\ cacheRet' = [store |-> store, key |-> key, at |-> now, entry |-> MapOf(store)[key],
                    ret |-> cacheGet(MapOf(store), key, TtlOf(store), now)]
    /\ UNCHANGED <<blogCache, searchCache, analysisCache>>

\* The periodic cleanup (setInterval): one pass over the three stores.
CacheSweep ==
    /\ blogCache' = sweepStore(blogCache, BLOG_CACHE_TTL, now)
    /\ searchCache' = sweepStore(searchCache, SEARCH_CACHE_TTL, now)
    /\ analysisCache' = sweepStore(analysisCache, ANALYSIS_CACHE_TTL, now)
    /\ <<blogCache, searchCache, analysisCache>>' # <<blogCache, searchCache, analysisCache>>
    /\ UNCHANGED cacheRet

\* The clock advances: by a millisecond, or by the TTL of one of the stores.
CacheTick ==
    /\ ticks < MaxTicks
    /\ \E d \in {1, BLOG_CACHE_TTL, SEARCH_CACHE_TTL, ANALYSIS_CACHE_TTL} : now' = now + d
    /\ ticks' = ticks + 1

(***************************************************************************)
(* WIDGET PROTECTION                                                       *)
(*                                                                         *)
(* A text is a sequence of chunks.  A chunk is a tag the pattern of        *)
(* protectWidgets looks at, a placeholder, one of the two-character `$`    *)
(* sequences that String.prototype.replace reads in a replacement string, *)
(* or a run of other text.  "<script>" and "</script>" stand for the      *)
(* opening and closing tags of iframe, script, embed and object, which the *)
(* pattern does not tell apart; "<div.embed>" stands for a div whose class *)
(* holds w-embed, w-widget, widget or embed.                               *)
(***************************************************************************)
PH == <<"___WIDGET_0___", "___WIDGET_1___", "___WIDGET_2___", "___WIDGET_3___",
        "___WIDGET_4___", "___WIDGET_5___", "___WIDGET_6___", "___WIDGET_7___">>

\* `___WIDGET_${i}___`
Placeholder(i) == PH[i + 1]

Range(s) == {s[k] : k \in 1..Len(s)}

\* The index of the first chunk of s equal to tok at or after position p; 0 if none.
RECURSIVE IndexFrom(_, _, _)
IndexFrom(s, tok, p) ==
    IF p > Len(s) THEN 0 ELSE IF s[p] = tok THEN p ELSE IndexFrom(s, tok, p + 1)

Closer(open) == CASE open = "<script>" -> "</script>"
                  [] open = "<div.embed>" -> "</div>"
                  [] open = "<figure>" -> "</figure>"
                  [] open = "<video>" -> "</video>"

\* The last chunk of the match of the pattern that starts at position p of s; 0 when
\* the pattern does not match there.  The first alternative matches the opening tag
\* alone when no closing tag follows; the others need their closing tag; every
\* alternative is lazy and ends at the first closing tag.
MatchEnd_greedy(s, p) ==
    IF s[p] \notin {"<script>", "<div.embed>", "<figure>", "<video>"} THEN 0
    ELSE LET ends == {q \in (p + 1)..Len(s) : s[q] = Closer(s[p])}
         IN  IF ends # {} THEN CHOOSE q \in ends : \A r \in ends : r <= q
             ELSE IF s[p] = "<script>" THEN p ELSE 0

MatchEnd(s, p) ==
    IF s[p] \notin {"<script>", "<div.embed>", "<figure>", "<video>"} THEN 0
    ELSE LET q == IndexFrom(s, Closer(s[p]), p + 1)
         IN  IF q # 0 THEN q ELSE IF s[p] = "<script>" THEN p ELSE 0

\* html.replace(/.../gi, m => ...): the scan from position p on, with the output and
\* the widgets collected so far.
RECURSIVE protectFrom(_, _, _, _)
protectFrom(s, p, out, ws) ==
    IF p > Len(s) THEN [html |-> out, widgets |-> ws]
    ELSE LET e == MatchEnd(s, p)
         IN  IF e = 0 THEN protectFrom(s, p + 1, Append(out, s[p]), ws)
             ELSE protectFrom(s, e + 1, Append(out, Placeholder(Len(ws))),
                              Append(ws, SubSeq(s, p, e)))

\* The same without the g flag: only the first match is replaced.
protectWidgets_firstOnly(h) ==
    LET starts == {p \in 1..Len(h) : MatchEnd(h, p) # 0}
        p == CHOOSE q \in starts : \A r \in starts : q <= r
    IN  IF starts = {} THEN [html |-> h, widgets |-> <<>>]
        ELSE [html |-> SubSeq(h, 1, p - 1) \o <<Placeholder(0)>>
                          \o SubSeq(h, MatchEnd(h, p) + 1, Len(h)),
              widgets |-> <<SubSeq(h, p, MatchEnd(h, p))>>]

protectWidgets(h) == protectFrom(h, 1, <<>>, <<>>)

\* The text a replacement string w stands for when String.prototype.replace puts it
\* in place of `matched`, found between `before` and `after` (GetSubstitution).
RECURSIVE Expand(_, _, _, _)
Expand(w, matched, before, after) ==
    IF w = <<>> THEN <<>>
    ELSE (CASE Head(w) = "$$" -> <<"$">>
            [] Head(w) = "$&" -> <<matched>>
            [] Head(w) = "$`" -> before
            [] Head(w) = "$'" -> after
            [] OTHER -> <<Head(w)>>) \o Expand(Tail(w), matched, before, after)

\* out.replace(tok, w): the first occurrence of tok replaced; out when there is none.
replace_all(out, tok, w) ==
    LET RECURSIVE go(_)
        go(p) == IF p > Len(out) THEN <<>>
                 ELSE (IF out[p] = tok THEN w ELSE <<out[p]>>) \o go(p + 1)
    IN  go(1)

replace(out, tok, w) ==
    LET p == IndexFrom(out, tok, 1)
    IN  IF p = 0 THEN out
        ELSE SubSeq(out, 1, p - 1)
             \o Expand(w, tok, SubSeq(out, 1, p - 1), SubSeq(out, p + 1, Len(out)))
             \o SubSeq(out, p + 1, Len(out))

\* widgets.forEach((w, i) => { out = out.replace(`___WIDGET_${i}___`, w); }) from i on.
RECURSIVE restoreFrom(_, _, _)
restoreFrom(out, ws, i) ==
    IF i >= Len(ws) THEN out
    ELSE restoreFrom(replace(out, Placeholder(i), ws[i + 1]), ws, i + 1)

restoreWidgets(h, ws) == restoreFrom(h, ws, 0)

\* The inputs: up to MaxPieces pieces, each a chunk or a short fragment.
Chunks == {"t", "<img>", "$1", "$$", "$&", "$`", "$'",
           "<script>", "</script>", "<div.embed>", "</div>",
           "<figure>", "</figure>", "<video>", "</video>",
           Placeholder(0), Placeholder(1)}

Pieces ==
    {<<c>> : c \in Chunks} \cup
    { <<"<figure>", "<img>", "</figure>">>,
      <<"<div.embed>", "<script>", "</script>", "</div>">>,
      <<"<script>", "$$", "</script>">>,
      <<"<figure>", "$&", "</figure>">>,
      <<"<video>", "t", "</video>">>,
      <<"<figure>", Placeholder(1), "</figure>">> }

RECURSIVE Inputs(_)
Inputs(n) == IF n = 0 THEN {<<>>}
             ELSE Inputs(n - 1) \cup {a \o b : a \in Inputs(n - 1), b \in Pieces}

\* What the rewriting service may do with the protected text it is given.
Reverse(s) == [k \in 1..Len(s) |-> s[Len(s) + 1 - k]]
Without(s, p) == SubSeq(s, 1, p - 1) \o SubSeq(s, p + 1, Len(s))
LlmMoves == {"echo", "wrap", "duplicate", "drop", "reverse"}
LlmOutputs(move, s) ==
    CASE move = "echo" -> {s}
      [] move = "wrap" -> {<<"t">> \o s \o <<"t">>}
      [] move = "duplicate" -> {s \o <<s[p]>> : p \in {q \in 1..Len(s) : s[q] \in Range(PH)}}
      [] move = "drop" -> {Without(s, p) : p \in {q \in 1..Len(s) : s[q] \in Range(PH)}}
      [] move = "reverse" -> {Reverse(s)}

WidgetInit(inputs) ==
    /\ wpc = "input"
    /\ html \in inputs
    /\ safe = <<>>
    /\ widgets = <<>>
    /\ llm = "none"
    /\ rewritten = <<>>
    /\ restored = <<>>

\* Step 0 of the pipeline: const { html: protectedContent, widgets } = protectWidgets(blogContent)
Protect ==
    /\ wpc = "input"
    /\ safe' = protectWidgets(html).html
    /\ widgets' = protectWidgets(html).widgets
    /\ wpc' = "protected"
    /\ UNCHANGED <<html, llm, rewritten, restored>>

\* Step 3: the rewriting service answers with its version of the protected content.
Rewrite(move) ==
    /\ wpc = "protected"
    /\ \E out \in LlmOutputs(move, safe) : rewritten' = out
    /\ llm' = move
    /\ wpc' = "rewritten"
    /\ UNCHANGED <<html, safe, widgets, restored>>

\* Step 4: updated = restoreWidgets(updated, widgets)
Restore ==
    /\ wpc = "rewritten"
    /\ restored' = restoreWidgets(rewritten, widgets)
    /\ wpc' = "restored"
    /\ UNCHANGED <<html, safe, widgets, llm, rewritten>>

(***************************************************************************)
(* FETCH ALL BLOGS, GET /api/webflow, PATCH /api/webflow                   *)
(*                                                                         *)
(* A handler runs from the arrival of its request to its first await, and  *)
(* then from the settling of what it awaits to its next await.  When a     *)
(* promise settles, the continuations waiting for it are queued as         *)
(* microtasks in the order they were registered, and the queue is emptied  *)
(* before the event loop takes the next event: every event below is        *)
(* guarded by mq = <<>>.  A call of fetchR is seen from outside: it yields *)
(* a response or throws.                                                   *)
(***************************************************************************)
ReqIds == 1..MaxReqs
PromIds == 1..MaxReqs

NewReq == [pc |-> "new", kind |-> "none", coll |-> "none", path |-> "none",
           prom |-> 0, items |-> <<>>, fromCache |-> FALSE, deleted |-> FALSE,
           status |-> 0]
NoPromise == [state |-> "unused", coll |-> "none", owner |-> 0, pages |-> 0, ver |-> 0,
              value |-> <<>>, err |-> "none", waiters |-> <<>>]

\* The branch fetchAllBlogs(collectionId) takes: the cached listing, the promise
\* already in flight, or a new fetch.
fetchAllBlogsPath_noDedup(cache, infl, c, t) ==
    IF cacheGet(cache, c, BLOG_CACHE_TTL, t) # Null THEN "hit" ELSE "start"

fetchAllBlogsPath(cache, infl, c, t) ==
    IF cacheGet(cache, c, BLOG_CACHE_TTL, t) # Null THEN "hit"
    ELSE IF infl[c] # 0 THEN "join"
    ELSE "start"

\* The status the catch block of a handler answers with.
catchStatus(err) == IF err = "AbortError" THEN 408 ELSE 500

\* blogCache.delete(collectionId) of the PATCH handler.
invalidate_keeps(cache, c) == cache

invalidate(cache, c) == [cache EXCEPT ![c] = NoEntry]

\* finally { inflight.delete(collectionId); } of the call that started the
\* fetch, after await fetchPromise has ended in the given state.
finallyDelete_onSuccess(infl, c, state) ==
    IF state = "fulfilled" THEN [infl EXCEPT ![c] = 0] ELSE infl

finallyDelete(infl, c, state) == [infl EXCEPT ![c] = 0]

FreeProm == CHOOSE P \in PromIds : promises[P].state = "unused"
                                   /\ \A Q \in PromIds : Q < P => promises[Q].state # "unused"

\* The reactions queued when promise P settles: one per awaiting call, owner first.
Reactions(P) == [k \in 1..Len(promises[P].waiters) |->
                    [job |-> "settled", req |-> promises[P].waiters[k]]]

ListInit ==
    /\ reqs = [r \in ReqIds |-> NewReq]
    /\ promises = [P \in PromIds |-> NoPromise]
    /\ inflight = [c \in Collections |-> 0]
    /\ mq = <<>>
    /\ upstream = [c \in Collections |-> 0]

Arrives(r) == /\ mq = <<>>
              /\ reqs[r].pc = "new"
              /\ \A q \in ReqIds : q < r => reqs[q].pc # "new"

\* GET /api/webflow without itemId: rateOk, the credentials check, then
\* fetchAllBlogs up to its first await.
GetArrives(r, ip, c, valid) ==
    /\ Arrives(r)
    /\ rateMap' = rateOk(rateMap, ip, now).map
    /\ LET q == [NewReq EXCEPT !.kind = "list", !.coll = c]
           path == fetchAllBlogsPath(blogCache, inflight, c, now)
       IN  IF ~rateOk(rateMap, ip, now).ret
           THEN /\ reqs' = [reqs EXCEPT ![r] = [q EXCEPT !.pc = "done", !.status = 429]]
                /\ UNCHANGED <<promises, inflight, mq>>
           ELSE IF ~valid
           THEN /\ reqs' = [reqs EXCEPT ![r] = [q EXCEPT !.pc = "done", !.status = 400]]
                /\ UNCHANGED <<promises, inflight, mq>>
           ELSE IF path = "hit"
           THEN /\ reqs' = [reqs EXCEPT ![r] =
                       [q EXCEPT !.pc = "resume", !.path = "hit",
                                 !.items = cacheGet(blogCache, c, BLOG_CACHE_TTL, now)]]
                /\ mq' = Append(mq, [job |-> "resume", req |-> r])
                /\ UNCHANGED <<promises, inflight>>
           ELSE IF path = "join"
           THEN /\ reqs' = [reqs EXCEPT ![r] =
                       [q EXCEPT !.pc = "awaitList", !.path = "join", !.prom = inflight[c]]]
                /\ promises' = [promises EXCEPT ![inflight[c]].waiters = Append(@, r)]
                /\ UNCHANGED <<inflight, mq>>
           ELSE /\ reqs' = [reqs EXCEPT ![r] =
                       [q EXCEPT !.pc = "awaitList", !.path = "start", !.prom = FreeProm]]
                /\ promises' = [promises EXCEPT ![FreeProm] =
                       [NoPromise EXCEPT !.state = "pending", !.coll = c, !.owner = r,
                                         !.waiters = <<r>>]]
                /\ inflight' = [inflight EXCEPT ![c] = FreeProm]
                /\ UNCHANGED mq
    /\ UNCHANGED <<blogCache, upstream, now>>

\* The upstream answers the page request of the producer of promise P: a full page
\* (the loop waits 300 ms and asks for the next), a short page (dedup, cacheSet,
\* return), a non-OK response (throw), or fetchR throws.
PageAnswers(P, outcome) ==
    /\ mq = <<>>
    /\ promises[P].state = "pending"
    /\ LET pr == promises[P]
           c == pr.coll
           ver == IF pr.pages = 0 THEN upstream[c] ELSE pr.ver
       IN  CASE outcome = "full" ->
                  /\ pr.pages + 1 < MaxPages
                  /\ promises' = [promises EXCEPT ![P].pages = @ + 1, ![P].ver = ver]
                  /\ UNCHANGED <<blogCache, mq>>
             [] outcome = "short" ->
                  /\ promises' = [promises EXCEPT ![P].pages = @ + 1, ![P].ver = ver,
                                                  ![P].state = "fulfilled",
                                                  ![P].value = <<[ver |-> ver]>>]
                  /\ blogCache' = cacheSet(blogCache, c, [ver |-> ver], now)
                  /\ mq' = Reactions(P)
             [] outcome \in {"Error", "AbortError"} ->
                  /\ promises' = [promises EXCEPT ![P].state = "rejected", ![P].err = outcome]
                  /\ mq' = Reactions(P)
                  /\ UNCHANGED blogCache
    /\ UNCHANGED <<reqs, inflight, upstream, rateMap, now>>

\* The first microtask runs.  "settled": await fetchPromise of the owner ends, its
\* finally block deletes the in-flight entry, and fetchAllBlogs settles; for a call
\* that returned the in-flight promise, fetchAllBlogs settles with it.  "resume":
\* the handler goes on after await fetchAllBlogs(...), to its next await or its catch.
RunMicrotask ==
    /\ mq # <<>>
    /\ LET r == Head(mq).req
           rq == reqs[r]
           c == rq.coll
       IN  CASE Head(mq).job = "settled" ->
                  /\ inflight' = IF promises[rq.prom].owner = r
                                 THEN finallyDelete(inflight, c, promises[rq.prom].state)
                                 ELSE inflight
                  /\ reqs' = [reqs EXCEPT ![r].pc = "resume"]
                  /\ mq' = Append(Tail(mq), [job |-> "resume", req |-> r])
                  /\ UNCHANGED promises
             [] Head(mq).job = "resume" ->
                  /\ reqs' = [reqs EXCEPT ![r] =
                        IF rq.prom # 0 /\ promises[rq.prom].state = "rejected"
                        THEN [rq EXCEPT !.pc = "done",
                                        !.status = catchStatus(promises[rq.prom].err)]
                        ELSE [rq EXCEPT !.pc = "awaitSite",
                                        !.items = IF rq.prom # 0 THEN promises[rq.prom].value
                                                  ELSE rq.items,
                                        !.fromCache =
                                            cacheGet(blogCache, c, BLOG_CACHE_TTL, now) # Null]]
                  /\ mq' = Tail(mq)
                  /\ UNCHANGED <<inflight, promises>>
    /\ UNCHANGED <<blogCache, upstream, rateMap, now>>

\* The collection request (siteId) of a listing handler ends, whatever its outcome:
\* res.json({ items, cached, siteId }).
SiteAnswers(r) ==
    /\ mq = <<>>
    /\ reqs[r].pc = "awaitSite"
    /\ reqs' = [reqs EXCEPT ![r].pc = "done", ![r].status = 200]
    /\ UNCHANGED <<promises, inflight, mq, blogCache, upstream, rateMap, now>>

\* PATCH /api/webflow: rateOk, the fields check, then fetchR(..., PATCH) is awaited.
PatchArrives(r, ip, c, valid) ==
    /\ Arrives(r)
    /\ rateMap' = rateOk(rateMap, ip, now).map
    /\ LET q == [NewReq EXCEPT !.kind = "patch", !.coll = c]
       IN  reqs' = [reqs EXCEPT ![r] =
                IF ~rateOk(rateMap, ip, now).ret THEN [q EXCEPT !.pc = "done", !.status = 429]
                ELSE IF ~valid THEN [q EXCEPT !.pc = "done", !.status = 400]
                ELSE [q EXCEPT !.pc = "awaitPatch"]]
    /\ UNCHANGED <<promises, inflight, mq, blogCache, upstream, now>>

\* The item store applies the update of a PATCH request it has received.
UpstreamApplies(r) ==
    /\ mq = <<>>
    /\ reqs[r].pc = "awaitPatch"
    /\ upstream' = [upstream EXCEPT ![reqs[r].coll] = @ + 1]
    /\ reqs' = [reqs EXCEPT ![r].pc = "patchApplied"]
    /\ UNCHANGED <<promises, inflight, mq, blogCache, rateMap, now>>

\* The PATCH handler goes on after await fetchR and await r.json(): a non-OK status
\* is passed on, a thrown failure goes to the catch block, and on success the
\* listing cache entry is deleted before res.json(d); `deleted` is what
\* blogCache.delete returns (whether there was an entry).
PatchAnswers(r, outcome) ==
    /\ mq = <<>>
    /\ \/ reqs[r].pc = "awaitPatch" /\ outcome # "ok"
       \/ reqs[r].pc = "patchApplied" /\ outcome \in {"ok", "AbortError"}
    /\ reqs' = [reqs EXCEPT ![r].pc = "done",
                            ![r].deleted = (outcome = "ok"
                                            /\ blogCache[reqs[r].coll] # NoEntry),
                            ![r].status = CASE outcome = "ok" -> 200
                                            [] outcome = "notOk" -> 400
                                            [] OTHER -> catchStatus(outcome)]
    /\ blogCache' = IF outcome = "ok" THEN invalidate(blogCache, reqs[r].coll) ELSE blogCache
    /\ UNCHANGED <<promises, inflight, mq, upstream, rateMap, now>>

\* The cleanup timer of the caches fires between two events.
ListSweep ==
    /\ mq = <<>>
    /\ blogCache' = sweepStore(blogCache, BLOG_CACHE_TTL, now)
    /\ blogCache' # blogCache
    /\ UNCHANGED <<reqs, promises, inflight, mq, upstream, rateMap, now>>

\* The clock advances between two events, from a time at which a cached listing is
\* valid to where it is older than the TTL (and the rate windows have elapsed).
ListTick ==
    /\ mq = <<>>
    /\ \E c \in Collections : cacheGet(blogCache, c, BLOG_CACHE_TTL, now) # Null
    /\ now' = now + BLOG_CACHE_TTL + 1
    /\ UNCHANGED <<reqs, promises, inflight, mq, upstream, rateMap, blogCache>>

(***************************************************************************)
(* hash                                                                    *)
(*                                                                         *)
(* A string is the sequence of its UTF-16 code units.                      *)
(***************************************************************************)
HASH_LIMIT == 5000

\* h = ((h << 5) - h) + c; h = h & h: 31 * h + c as a signed 32-bit integer, computed
\* on the two 16-bit halves of h.
hashStep(h, c) ==
    LET a == h \div 65536
        b == h % 65536
        t == 31 * b + c
        hi == 31 * a + (t \div 65536)
    IN  (((hi + 32768) % 65536) - 32768) * 65536 + (t % 65536)

\* The loop over str[lo..hi], left to right; the left half is evaluated before the
\* right half is entered.
RECURSIVE hashRange(_, _, _, _)
hashRange(str, lo, hi, h) ==
    IF lo > hi THEN h
    ELSE IF lo = hi THEN hashStep(h, str[lo])
    ELSE LET mid == (lo + hi) \div 2
             left == hashRange(str, lo, mid, h)
         IN  IF left \in Int THEN hashRange(str, mid + 1, hi, left) ELSE 0

Digit36 == <<"0", "1", "2", "3", "4", "5", "6", "7", "8", "9", "a", "b", "c", "d", "e", "f",
             "g", "h", "i", "j", "k", "l", "m", "n", "o", "p", "q", "r", "s", "t", "u", "v",
             "w", "x", "y", "z">>

RECURSIVE Digits36(_)
Digits36(n) == IF n < 36 THEN <<Digit36[n + 1]>>
               ELSE Digits36(n \div 36) \o <<Digit36[(n % 36) + 1]>>

\* h.toString(36): the digits of |h|, after a minus sign when h < 0.
toString36(h) ==
    IF h >= 0 THEN Digits36(h)
    ELSE LET r == h % 36
             rest == IF r = 0 THEN -(h \div 36) ELSE -(h \div 36) - 1
             last == IF r = 0 THEN 0 ELSE 36 - r
         IN  <<"-">> \o (IF rest = 0 THEN <<>> ELSE Digits36(rest)) \o <<Digit36[last + 1]>>

\* The same hash taken over every character of the string.
hash_wholeString(str) == toString36(hashRange(str, 1, Len(str), 0))

hash(str) == toString36(hashRange(str, 1, Min(Len(str), HASH_LIMIT), 0))

(***************************************************************************)
(* braveSearch, googleSearch and step 2 of POST /api/smartcheck            *)
(*                                                                         *)
(* The search step of one run, from the parsed list of queries to the     *)
(* deduplicated results.  Query k of the list is the string "q" followed   *)
(* by the character of code 48 + k.                                        *)
(***************************************************************************)
BATCH == 3
QUERY_CAP == 8
Outcomes == {"ok", "nonOk", "throws", "malformed"}

QueryText(k) == <<113, 48 + k>>

\* `b:${hash(query)}` and `g:${hash(query)}`
searchKey(prov, q) == <<(IF prov = "brave" THEN "b" ELSE "g"), ":">> \o hash(q)

SearchCacheKeys == {searchKey(prov, QueryText(k)) : prov \in {"brave", "google"},
                                                     k \in 1..MaxQueries}

\* What provider prov has for query k, as mapped by the search function: the two
\* providers share a url, consecutive queries share urls, and brave lists its first
\* url twice, under two titles.
Hit(prov, k, j, u) == [title |-> <<prov, k, j>>, url |-> u, source |-> prov]
Found(prov, k) ==
    IF prov = "brave"
    THEN <<Hit(prov, k, 1, k % 4), Hit(prov, k, 2, (k + 1) % 4), Hit(prov, k, 3, k % 4)>>
    ELSE <<Hit(prov, k, 1, (k + 1) % 4), Hit(prov, k, 2, (k + 2) % 4)>>

\* braveSearch / googleSearch up to the first await: no credential, a cached list,
\* or the upstream call is made.
searchEntry(prov, hasKey, cache, q, t) ==
    IF ~hasKey THEN [st |-> "noKey", ret |-> <<>>]
    ELSE IF cacheGet(cache, searchKey(prov, q), SEARCH_CACHE_TTL, t) # Null
         THEN [st |-> "cached",
               ret |-> cacheGet(cache, searchKey(prov, q), SEARCH_CACHE_TTL, t)[1]]
         ELSE [st |-> "pending", ret |-> <<>>]

\* braveSearch / googleSearch after await fetchR: a response that is not OK, a
\* thrown failure of fetchR, and a body that cannot be read or mapped all end in
\* return []; only a mapped list is stored.
searchSettle_rethrows(outcome, found) ==
    [threw |-> outcome = "throws", store |-> outcome = "ok",
     ret |-> IF outcome = "ok" THEN found ELSE <<>>]

searchSettle_storesFailures(outcome, found) ==
    [threw |-> FALSE, store |-> TRUE,
     ret |-> IF outcome = "ok" THEN found ELSE <<>>]

searchSettle(outcome, found) ==
    [threw |-> FALSE, store |-> outcome = "ok",
     ret |-> IF outcome = "ok" THEN found ELSE <<>>]

\* queries.slice(from, to), with 0-based bounds.
slice_toEnd(q, from, to) == SubSeq(q, from + 1, Len(q))

slice(q, from, to) == SubSeq(q, from + 1, Min(to, Len(q)))

\* Math.min(queries.length, 8)
loopBound(n) == Min(n, QUERY_CAP)

\* The positions of the list that the iteration at index i searches.
BatchOf(s) == {s.i + j : j \in 1..Len(slice(s.queries, s.i, s.i + BATCH))}

\* for (const g of allResults) for (const r of g.results) ...: the results in the
\* order of the two loops, each with the query of its group.
RECURSIVE Flatten(_)
Flatten(groups) ==
    IF groups = <<>> THEN <<>>
    ELSE [j \in 1..Len(Head(groups).results) |->
             [title |-> Head(groups).results[j].title, url |-> Head(groups).results[j].url,
              source |-> Head(groups).results[j].source, query |-> Head(groups).query]]
         \o Flatten(Tail(groups))

\* if (!seen.has(r.url)) { seen.add(r.url); unique.push(...) } over the results.
RECURSIVE dedup_keepsLast(_, _, _)
dedup_keepsLast(flat, seen, unique) ==
    IF flat = <<>> THEN unique
    ELSE dedup_keepsLast(Tail(flat), seen \cup {Head(flat).url},
                         SelectSeq(unique, LAMBDA r : r.url # Head(flat).url)
                             \o <<Head(flat)>>)

RECURSIVE dedup(_, _, _)
dedup(flat, seen, unique) ==
    IF flat = <<>> THEN unique
    ELSE IF Head(flat).url \in seen THEN dedup(Tail(flat), seen, unique)
    ELSE dedup(Tail(flat), seen \cup {Head(flat).url}, Append(unique, Head(flat)))

NoCalls == [brave |-> "none", google |-> "none"]
NoLists == [brave |-> <<>>, google |-> <<>>]

\* The step before it starts: the queries, the credentials of the request
\* (braveKey) and of the server (GOOGLE_API_KEY and GOOGLE_CX).
SearchIdle(n, bk, gg) ==
    [pc |-> "idle", queries |-> [k \in 1..n |-> QueryText(k)],
     braveKey |-> bk, google |-> gg, i |-> 0,
     st |-> [k \in 1..n |-> NoCalls], ret |-> [k \in 1..n |-> NoLists],
     allResults |-> <<>>, searchCount |-> 0, calls |-> 0, delays |-> 0, fails |-> 0,
     failure |-> "none", unique |-> <<>>]

HasKey(s, prov) == IF prov = "brave" THEN s.braveKey ELSE s.google

Outstanding(s, k) == s.st[k].brave = "pending" \/ s.st[k].google = "pending"

\* Once no call of the iteration is outstanding: allResults.push(...results), then
\* the wait of 500 ms when another iteration follows, else the loop ends and the
\* results are deduplicated.
AfterBatch(s) ==
    IF \E k \in BatchOf(s) : Outstanding(s, k) THEN s
    ELSE LET groups == [j \in 1..Cardinality(BatchOf(s)) |->
                           [query |-> s.queries[s.i + j],
                            results |-> s.ret[s.i + j].brave \o s.ret[s.i + j].google]]
             all == s.allResults \o groups
         IN  IF s.i + BATCH < loopBound(Len(s.queries))
             THEN [s EXCEPT !.pc = "delay", !.allResults = all]
             ELSE [s EXCEPT !.pc = "done", !.allResults = all,
                            !.unique = dedup(Flatten(all), {}, <<>>)]

\* One iteration of the loop up to its await: the two search functions are called
\* for every query of the slice; searchCount++ runs for a query once both of its
\* calls have returned.
IssueBatch(s, cache, t) ==
    LET at == [s EXCEPT !.pc = "batch"]
        entry(k, prov) == searchEntry(prov, HasKey(s, prov), cache, s.queries[k], t)
        issued == [at EXCEPT
            !.st = [k \in DOMAIN s.st |->
                       IF k \in BatchOf(at)
                       THEN [brave |-> entry(k, "brave").st, google |-> entry(k, "google").st]
                       ELSE s.st[k]],
            !.ret = [k \in DOMAIN s.ret |->
                       IF k \in BatchOf(at)
                       THEN [brave |-> entry(k, "brave").ret, google |-> entry(k, "google").ret]
                       ELSE s.ret[k]],
            !.calls = @ + Cardinality(BatchOf(at))
                          * Cardinality({prov \in {"brave", "google"} : HasKey(s, prov)})]
    IN  AfterBatch([issued EXCEPT
            !.searchCount = @ + Cardinality({k \in BatchOf(at) : ~Outstanding(issued, k)})])

\* let allResults = []; for (let i = 0; i < Math.min(queries.length, 8); i += batch)
SearchBegins ==
    /\ srch.pc = "idle"
    /\ srch' = IF 0 < loopBound(Len(srch.queries))
               THEN IssueBatch(srch, searchCache, now)
               ELSE [srch EXCEPT !.pc = "done"]
    /\ UNCHANGED searchCache

\* The upstream call of one search function ends, and the function returns; the
\* record keeps how the failed call that returned last had failed.
CallSettles(k, prov, outcome) ==
    /\ srch.pc = "batch"
    /\ k \in DOMAIN srch.st
    /\ srch.st[k][prov] = "pending"
    /\ outcome # "ok" => srch.fails < MaxFailures
    /\ LET r == searchSettle(outcome, Found(prov, k))
           settled == [srch EXCEPT !.st[k][prov] = IF outcome = "ok" THEN "ok" ELSE "failed",
                                   !.ret[k][prov] = r.ret,
                                   !.fails = IF outcome = "ok" THEN @ ELSE @ + 1,
                                   !.failure = IF outcome = "ok" THEN @ ELSE outcome]
       IN  /\ searchCache' = IF r.store
                             THEN cacheSet(searchCache, searchKey(prov, srch.queries[k]),
                                           r.ret, now)
                             ELSE searchCache
           /\ srch' = IF r.threw THEN [settled EXCEPT !.pc = "threw"]
                      ELSE AfterBatch([settled EXCEPT
                               !.searchCount = IF Outstanding(settled, k) THEN @ ELSE @ + 1])

\* await new Promise(r => setTimeout(r, 500)) ends; i += batch.
DelayElapses ==
    /\ srch.pc = "delay"
    /\ srch' = IssueBatch([srch EXCEPT !.i = @ + BATCH, !.delays = @ + 1], searchCache, now)
    /\ UNCHANGED searchCache

(***************************************************************************)
(* Step 1 of POST /api/smartcheck: the parse of the generated queries      *)
(*                                                                         *)
(* The text of the answer is a sequence of tokens: a code fence (three     *)
(* backticks, with or without json after them), a square bracket, a comma, *)
(* a JSON string, null, an object, or a word of prose.                     *)
(***************************************************************************)
Fences == {"<fence>json", "<fence>"}
Scalars == {"\"q1\"", "null", "{}"}
Tokens == Fences \cup Scalars \cup {"[", "]", ",", "word"}

RECURSIVE Texts(_)
Texts(n) == IF n = 0 THEN {<<>>}
            ELSE Texts(n - 1) \cup {Append(t, tok) : t \in Texts(n - 1), tok \in Tokens}

\* text.replace(/```json\n?|```\n?/g, '').trim()
stripFences(text) == SelectSeq(text, LAMBDA tok : tok \notin Fences)

Kind(tok) == CASE tok = "null" -> "null" [] tok = "{}" -> "object" [] OTHER -> "string"

\* JSON.parse of the value that starts at token p: whether there is one, the token
\* after it, its kind, and its length when it is an array.
RECURSIVE parseValue(_, _)
RECURSIVE parseElements(_, _, _)
parseValue(toks, p) ==
    IF p > Len(toks) THEN [ok |-> FALSE, next |-> p, kind |-> "none", n |-> 0]
    ELSE IF toks[p] \in Scalars
         THEN [ok |-> TRUE, next |-> p + 1, kind |-> Kind(toks[p]), n |-> 0]
    ELSE IF toks[p] # "[" THEN [ok |-> FALSE, next |-> p, kind |-> "none", n |-> 0]
    ELSE IF p + 1 <= Len(toks) /\ toks[p + 1] = "]"
         THEN [ok |-> TRUE, next |-> p + 2, kind |-> "array", n |-> 0]
    ELSE parseElements(toks, p + 1, 0)

\* The elements of an array from token p on, n of them read so far.
parseElements(toks, p, n) ==
    LET v == parseValue(toks, p)
    IN  IF ~v.ok \/ v.next > Len(toks) THEN [ok |-> FALSE, next |-> p, kind |-> "none", n |-> 0]
        ELSE IF toks[v.next] = "]"
             THEN [ok |-> TRUE, next |-> v.next + 1, kind |-> "array", n |-> n + 1]
        ELSE IF toks[v.next] = "," THEN parseElements(toks, v.next + 1, n + 1)
        ELSE [ok |-> FALSE, next |-> p, kind |-> "none", n |-> 0]

\* JSON.parse(text): a value and nothing after it, or a SyntaxError.
jsonParse(toks) ==
    LET v == parseValue(toks, 1)
    IN  IF v.ok /\ v.next = Len(toks) + 1 THEN v
        ELSE [ok |-> FALSE, next |-> 1, kind |-> "none", n |-> 0]

\* text.match(/\[[\s\S]*?\]/): from the first "[" that a "]" follows to the first
\* "]" after it; <<>> when there is no match.
firstBracketed(text) ==
    LET opens == {p \in 1..Len(text) : text[p] = "[" /\ \E q \in (p + 1)..Len(text) : text[q] = "]"}
    IN  IF opens = {} THEN <<>>
        ELSE LET p == CHOOSE a \in opens : \A b \in opens : a <= b
             IN  SubSeq(text, p, IndexFrom(text, "]", p + 1))

\* try { queries = JSON.parse(...) } catch { queries = m ? JSON.parse(m[0]) : [] }:
\* the value of queries, or the SyntaxError of the second parse.
parseQueries(text) ==
    LET direct == jsonParse(stripFences(text))
        m == firstBracketed(text)
    IN  IF direct.ok THEN [threw |-> FALSE, kind |-> direct.kind, n |-> direct.n]
        ELSE IF m = <<>> THEN [threw |-> FALSE, kind |-> "array", n |-> 0]
        ELSE IF jsonParse(m).ok
             THEN [threw |-> FALSE, kind |-> jsonParse(m).kind, n |-> jsonParse(m).n]
        ELSE [threw |-> TRUE, kind |-> "none", n |-> 0]

\* What the handler does with the value: queries.length of null throws, a string
\* has no map (slice.map throws), an object has no length (no iteration), and the
\* loop runs over an array.  The number of iterations' worth of queries, or -1
\* when the handler ends in its catch block.
queriesToSearch(parsed) ==
    IF parsed.threw \/ parsed.kind \in {"null", "string"} THEN -1
    ELSE IF parsed.kind = "object" THEN 0
    ELSE parsed.n

QgenAwaiting(text) == [pc |-> "awaitQueries", text |-> text, kind |-> "none", n |-> 0,
                       status |-> 0]

\* The answer of the query-generation call is parsed, and the handler goes on to
\* the search step or to its catch block.
QueriesParsed ==
    /\ qgen.pc = "awaitQueries"
    /\ LET parsed == parseQueries(qgen.text)
       IN  qgen' = IF queriesToSearch(parsed) < 0
                   THEN [qgen EXCEPT !.pc = "done", !.status = 500, !.kind = parsed.kind]
                   ELSE [qgen EXCEPT !.pc = "search", !.kind = parsed.kind,
                                     !.n = queriesToSearch(parsed)]

(***************************************************************************)
(* POST /api/smartcheck                                                    *)
(*                                                                         *)
(* A request carries its content (a sequence of chunks, as in the widget   *)
(* protector) and its keywords.  Content "w" is short and holds a widget;  *)
(* content "LA" is longer than the 5000 characters that hash reads.  The   *)
(* search step is one event here: the search of the one generated query    *)
(* with brave, answered by the provider or from the search cache.          *)
(***************************************************************************)
RunIds == 1..MaxRuns
ContentIds == {"w", "LA", "plain"}
KeywordIds == {"K0", "K1"}
Requests == {<<"w", "K0">>, <<"LA", "K0">>, <<"LA", "K1">>}
EXCERPT == 4000

Body(c) == IF c = "w" THEN <<"t", "<script>", "t", "</script>", "t">>
           ELSE IF c = "plain" THEN <<"t", "t">>
           ELSE <<"P1000", "P1000", "P1000", "P1000", "P1000", "<script>", "t", "</script>">>

\* The characters of a chunk; "P1000" is a run of 1000 letters p.
Codes(chunk) ==
    CASE chunk = "t" -> <<116>>
      [] chunk = "<script>" -> <<60, 115, 99, 114, 105, 112, 116, 62>>
      [] chunk = "</script>" -> <<60, 47, 115, 99, 114, 105, 112, 116, 62>>
      [] chunk = "P1000" -> [j \in 1..1000 |-> 112]
      [] chunk \in Range(PH) -> <<95, 95, 95, 87, 73, 68, 71, 69, 84, 95, 48, 95, 95, 95>>

RECURSIVE Chars(_)
Chars(text) == IF text = <<>> THEN <<>> ELSE Codes(Head(text)) \o Chars(Tail(text))

\* JSON.stringify(gscKeywords || []) for no keywords and for [{"keyword":"k"}].
KeywordsJson(k) ==
    IF k = "K0" THEN <<91, 93>>
    ELSE <<91, 123, 34, 107, 101, 121, 119, 111, 114, 100, 34, 58, 34, 107, 34, 125, 93>>

\* blogContent + JSON.stringify(gscKeywords || [])
Hashed(c, k) == Chars(Body(c)) \o KeywordsJson(k)

\* const contentKey = hash(blogContent + JSON.stringify(gscKeywords || []))
contentKey == [c \in ContentIds |-> [k \in KeywordIds |-> hash(Hashed(c, k))]]

AnalysisKeys == {contentKey[c][k] : c \in ContentIds, k \in KeywordIds}

\* text.substring(0, limit), for texts that a chunk ends at the limit of.
RECURSIVE substring(_, _)
substring(text, limit) ==
    IF text = <<>> \/ Len(Codes(Head(text))) > limit THEN <<>>
    ELSE <<Head(text)>> \o substring(Tail(text), limit - Len(Codes(Head(text))))

\* The content that the prompt of each LLM call holds.
queryPrompt(orig, protected) == substring(protected, EXCERPT)

rewritePrompt_raw(orig, protected) == orig

rewritePrompt(orig, protected) == protected

\* const cachedResult = cacheGet(analysisCache, contentKey, ANALYSIS_CACHE_TTL);
\* if (cachedResult) ...
analysisHit_never(cache, key, t) == FALSE

analysisHit(cache, key, t) == cacheGet(cache, key, ANALYSIS_CACHE_TTL, t) # Null

\* What the query-generation call can end in: an answer text, a rejection of the
\* SDK call, or the 30 s timer of Promise.race.
QueryAnswerTexts == {<<"[", "\"q1\"", "]">>, <<"word">>, <<"word", "[", "word", "]">>}
LlmFailures == {"Error", "timeout"}
QueryOutcomes == {[failure |-> f, text |-> <<>>] : f \in LlmFailures}
                 \cup {[failure |-> "none", text |-> t] : t \in QueryAnswerTexts}

\* if (err.message.includes('timeout')) 408, else 500.
smartCatch(failure) == IF failure = "timeout" THEN 408 ELSE 500

\* After the rewrite call: a text is restored, stored and answered with 200; a
\* failure goes to the catch block and nothing is stored.
afterRewrite_storesAlways(outcome) ==
    IF outcome = "text" THEN [status |-> 200, store |-> TRUE]
    ELSE [status |-> smartCatch(outcome), store |-> TRUE]

afterRewrite(outcome) ==
    IF outcome = "text" THEN [status |-> 200, store |-> TRUE]
    ELSE [status |-> smartCatch(outcome), store |-> FALSE]

NewRun == [pc |-> "new", content |-> "none", kw |-> "none", key |-> <<>>,
           trace |-> <<>>, sent |-> <<>>, protected |-> <<>>, widgets |-> <<>>,
           n |-> 0, searches |-> 0, results |-> 0, status |-> 0, fromCache |-> FALSE,
           result |-> <<>>]

RunsInit == [r \in RunIds |-> NewRun]

\* The handler from the arrival of the request to its first await: rateOk, the
\* fields check (a request answered 429 or 400 has its content and keywords
\* left unread), the cache check, protectWidgets and the query-generation call.
SmartArrives(r, ip, c, k, valid) ==
    /\ runs[r].pc = "new"
    /\ \A q \in RunIds : q < r => runs[q].pc # "new"
    /\ rateMap' = rateOk(rateMap, ip, now).map
    /\ LET q == [NewRun EXCEPT !.content = c, !.kw = k]
           key == contentKey[c][k]
           p == protectWidgets(Body(c))
       IN  runs' = [runs EXCEPT ![r] =
               IF ~rateOk(rateMap, ip, now).ret
               THEN [NewRun EXCEPT !.pc = "done", !.status = 429, !.trace = <<"Response">>]
               ELSE IF ~valid
               THEN [NewRun EXCEPT !.pc = "done", !.status = 400, !.trace = <<"Response">>]
               ELSE IF analysisHit(analysisCache, key, now)
               THEN [q EXCEPT !.pc = "done", !.status = 200, !.key = key,
                              !.fromCache = TRUE,
                              !.result = cacheGet(analysisCache, key, ANALYSIS_CACHE_TTL, now),
                              !.trace = <<"CacheCheck", "Response">>]
               ELSE [q EXCEPT !.pc = "awaitQueries", !.key = key,
                              !.protected = p.html, !.widgets = p.widgets,
                              !.sent = <<queryPrompt(Body(c), p.html)>>,
                              !.trace = <<"CacheCheck", "WidgetProtect", "QueryGeneration">>]]
    /\ UNCHANGED <<now, analysisCache, searchCache>>

\* The rewrite call is made: the prompt holds the content and the research.
ToRewrite_twice(run, searches, results) ==
    [run EXCEPT !.pc = "awaitRewrite", !.searches = searches, !.results = results,
                !.sent = @ \o <<rewritePrompt(Body(run.content), run.protected),
                                rewritePrompt(Body(run.content), run.protected)>>,
                !.trace = @ \o <<"Rewrite", "Rewrite">>]

ToRewrite(run, searches, results) ==
    [run EXCEPT !.pc = "awaitRewrite", !.searches = searches, !.results = results,
                !.sent = Append(@, rewritePrompt(Body(run.content), run.protected)),
                !.trace = Append(@, "Rewrite")]

\* The query-generation call ends: a failure goes to the catch block; an answer is
\* parsed, and the search step runs up to its first await, or to its end when
\* nothing is searched or the results come from the search cache.
QueryAnswers(r, outcome) ==
    /\ runs[r].pc = "awaitQueries"
    /\ LET run == runs[r]
           n == IF outcome.failure # "none" THEN -1
                ELSE queriesToSearch(parseQueries(outcome.text))
           entry == searchEntry("brave", TRUE, searchCache, QueryText(1), now)
           searching == [run EXCEPT !.n = n, !.trace = Append(@, "Search")]
       IN  runs' = [runs EXCEPT ![r] =
               IF outcome.failure # "none"
               THEN [run EXCEPT !.pc = "done", !.status = smartCatch(outcome.failure),
                                !.trace = Append(@, "Response")]
               ELSE IF n < 0
               THEN [run EXCEPT !.pc = "done", !.status = 500, !.trace = Append(@, "Response")]
               ELSE IF n = 0 THEN ToRewrite(searching, 0, 0)
               ELSE IF entry.st = "cached"
               THEN ToRewrite(searching, n,
                              Len(dedup(Flatten(<<[query |-> QueryText(1),
                                                   results |-> entry.ret]>>), {}, <<>>)))
               ELSE [searching EXCEPT !.pc = "search"]]
    /\ UNCHANGED <<now, rateMap, analysisCache, searchCache>>

\* The search call of the run ends, with results (stored in the search cache) or
\* without; the results are deduplicated and the rewrite call is made.
SearchEnds(r, outcome) ==
    /\ runs[r].pc = "search"
    /\ LET ret == searchSettle(outcome, Found("brave", 1))
       IN  /\ searchCache' = IF ret.store
                             THEN cacheSet(searchCache, searchKey("brave", QueryText(1)),
                                           ret.ret, now)
                             ELSE searchCache
           /\ runs' = [runs EXCEPT ![r] =
                  ToRewrite(runs[r], runs[r].n,
                            Len(dedup(Flatten(<<[query |-> QueryText(1),
                                                 results |-> ret.ret]>>), {}, <<>>)))]
    /\ UNCHANGED <<now, rateMap, analysisCache>>

\* The rewrite call ends: a failure goes to the catch block; a text (here the
\* content of the prompt, unchanged) is restored, stored and sent.
RewriteAnswers(r, outcome) ==
    /\ runs[r].pc = "awaitRewrite"
    /\ LET run == runs[r]
           updated == IF outcome = "text" THEN run.sent[Len(run.sent)] ELSE <<>>
           result == [by |-> r,
                      updatedContent |-> IF outcome = "text"
                                         THEN restoreWidgets(updated, run.widgets) ELSE <<>>,
                      searches |-> run.searches, results |-> run.results,
                      widgetsProtected |-> Len(run.widgets)]
           end == afterRewrite(outcome)
       IN  /\ analysisCache' = IF end.store THEN cacheSet(analysisCache, run.key, result, now)
                               ELSE analysisCache
           /\ runs' = [runs EXCEPT ![r] =
                  IF outcome = "text"
                  THEN [run EXCEPT !.pc = "done", !.status = end.status,
                                   !.result = <<result>>,
                                   !.trace = @ \o <<"WidgetRestore", "CacheStore", "Response">>]
                  ELSE [run EXCEPT !.pc = "done", !.status = end.status,
                                   !.trace = Append(@, "Response")]]
    /\ UNCHANGED <<now, rateMap, searchCache>>

\* The clock advances from a time at which a stored result is valid to where it
\* is older than the TTL (24 h); no run lasts that long (its calls are timed out
\* within minutes), so none is under way.
SmartTick ==
    /\ \A r \in RunIds : runs[r].pc \in {"new", "done"}
    /\ \E key \in AnalysisKeys : analysisHit(analysisCache, key, now)
    /\ now' = now + ANALYSIS_CACHE_TTL + 1
    /\ UNCHANGED <<runs, rateMap, analysisCache, searchCache>>

SmartInit ==
    /\ runs = <<>>
    /\ srch = <<>>
    /\ qgen = <<>>

UnitInit ==
    /\ look = <<>>
    /\ solo = <<>>
    /\ pg = <<>>
    /\ resp = <<>>
    /\ proxy = <<>>

ShadowInit ==
    /\ unsweptCaches = <<>>
    /\ unsweptRate = <<>>

(***************************************************************************)
(* braveSearch and googleSearch as functions                               *)
(*                                                                         *)
(* The two functions called with a credential, one call after the other,   *)
(* for the queries "Aa" and "BB" and for the counts 3 (what the handler    *)
(* passes) and 5 (the default of the parameter).                           *)
(***************************************************************************)
Providers == {"brave", "google"}
LookupQueries == {"Aa", "BB"}
Counts == {3, 5}

\* The characters of a query.
LookupText(q) == IF q = "Aa" THEN <<65, 97>> ELSE <<66, 66>>

LookupKeys == {searchKey(prov, LookupText(q)) : prov \in Providers, q \in LookupQueries}

\* What provider prov sends for query q when asked for count results, as mapped
\* by the search function.
Listed(prov, q, count) == [j \in 1..count |-> Hit(prov, q, j, j)]

LookIdle == [pc |-> "idle", prov |-> "none", q |-> "none", count |-> 0, st |-> "none",
             ret |-> <<>>]

\* A search function is called and runs to its first await or to its return.
LookupCall(prov, q, count) ==
    /\ look.pc = "idle"
    /\ LET e == searchEntry(prov, TRUE, searchCache, LookupText(q), now)
       IN  look' = [pc |-> IF e.st = "pending" THEN "pending" ELSE "idle",
                    prov |-> prov, q |-> q, count |-> count, st |-> e.st, ret |-> e.ret]
    /\ UNCHANGED <<now, ticks, searchCache>>

\* fetchR and the reading of the body end: the list is stored and returned, or
\* [] is returned.
LookupSettles(outcome) ==
    /\ look.pc = "pending"
    /\ LET end == searchSettle(outcome, Listed(look.prov, look.q, look.count))
       IN  /\ searchCache' = IF end.store
                             THEN cacheSet(searchCache,
                                           searchKey(look.prov, LookupText(look.q)),
                                           end.ret, now)
                             ELSE searchCache
           /\ look' = [look EXCEPT !.pc = "idle", !.ret = end.ret,
                                   !.st = IF outcome = "ok" THEN "ok" ELSE "failed"]
    /\ UNCHANGED <<now, ticks>>

\* Between two calls the clock passes the TTL of the search cache.
LookupTick ==
    /\ look.pc = "idle"
    /\ ticks < MaxTicks
    /\ now' = now + SEARCH_CACHE_TTL + 1
    /\ ticks' = ticks + 1
    /\ UNCHANGED <<look, searchCache>>

(***************************************************************************)
(* One smartcheck request with its timers                                  *)
(*                                                                         *)
(* The handler of one request, with what the other pipeline model leaves   *)
(* out: which of its inputs the request carries, the two Promise.race      *)
(* calls with their timers (which are never cleared) and their LLM calls   *)
(* (which can settle after the timer), and the two awaits of the search    *)
(* function: fetchR, which ends by its own abort timers, and the reading   *)
(* of the body.  The request has content "w" and no keywords and its one   *)
(* query is searched with brave.                                           *)
(***************************************************************************)
\* The inputs a request carries: all of them, or all but one.
Fields == {f \in [content : BOOLEAN, title : BOOLEAN, key : BOOLEAN] :
               Cardinality({x \in {"content", "title", "key"} : ~f[x]}) <= 1}

AllFields == [content |-> TRUE, title |-> TRUE, key |-> TRUE]

\* if (!blogContent || !anthropicKey) return res.status(400)...
fieldsOk(f) == f.content /\ f.key

SoloKey == contentKey["w"]["K0"]

\* Promise.race: the first settlement decides, later ones are ignored.
race_lastWins(decided, settlement) == settlement

race(decided, settlement) == IF decided = "pending" THEN settlement ELSE decided

\* The type field of the error body: only the 408 answer carries one.
catchType(failure) == IF failure = "timeout" THEN "timeout" ELSE "none"

SoloNew == [pc |-> "new", fields |-> AllFields, status |-> 0, type |-> "none",
            responses |-> 0, fromCache |-> FALSE, trace |-> <<>>, n |-> 0,
            qRace |-> "none", qCall |-> "none", qTimer |-> "none",
            rwRace |-> "none", rwCall |-> "none", rwTimer |-> "none",
            fetch |-> "none", result |-> <<>>]

\* res.status(status).json(...)
Respond(run, status, type) ==
    [run EXCEPT !.pc = "done", !.status = status, !.type = type, !.responses = @ + 1,
                !.trace = Append(@, "Response")]

\* The catch block.
SoloCatch(run, failure) == Respond(run, smartCatch(failure), catchType(failure))

\* The rewrite call is made and raced against its 120 s timer.
SoloToRewrite(run) ==
    [run EXCEPT !.pc = "awaitRewrite", !.rwRace = "pending", !.rwCall = "pending",
                !.rwTimer = "armed", !.trace = Append(@, "Rewrite")]

\* The request arrives: rateOk, the fields check, the cache check, protectWidgets
\* and the query call, raced against its 30 s timer.
SoloArrives(ip, f) ==
    /\ solo.pc = "new"
    /\ rateMap' = rateOk(rateMap, ip, now).map
    /\ LET run == [solo EXCEPT !.fields = f]
       IN  solo' =
               IF ~rateOk(rateMap, ip, now).ret THEN Respond(run, 429, "none")
               ELSE IF ~fieldsOk(f) THEN Respond(run, 400, "none")
               ELSE IF analysisHit(analysisCache, SoloKey, now)
               THEN Respond([run EXCEPT !.fromCache = TRUE,
                                        !.result = cacheGet(analysisCache, SoloKey,
                                                            ANALYSIS_CACHE_TTL, now),
                                        !.trace = <<"CacheCheck">>], 200, "none")
               ELSE [run EXCEPT !.pc = "awaitQueries", !.qRace = "pending",
                                !.qCall = "pending", !.qTimer = "armed",
                                !.trace = <<"CacheCheck", "WidgetProtect", "QueryGeneration">>]
    /\ UNCHANGED <<analysisCache, searchCache>>

\* The handler after the race of the query call is decided.
AfterQueryRace(run, decided, text) ==
    LET n == queriesToSearch(parseQueries(text))
        searching == [run EXCEPT !.n = n, !.trace = Append(@, "Search")]
    IN  IF decided # "text" THEN SoloCatch(run, decided)
        ELSE IF n < 0 THEN SoloCatch(run, "Error")
        ELSE IF n = 0 THEN SoloToRewrite(searching)
        ELSE [searching EXCEPT !.pc = "search", !.fetch = "fetching"]

\* The query call settles, with an answer text or a rejection, before its timer
\* or after it.
QueryCallSettles(outcome) ==
    /\ solo.qCall = "pending"
    /\ LET settlement == IF outcome.failure = "none" THEN "text" ELSE outcome.failure
           decided == race(solo.qRace, settlement)
           run == [solo EXCEPT !.qCall = "settled", !.qRace = decided]
       IN  solo' = IF decided # solo.qRace THEN AfterQueryRace(run, decided, outcome.text)
                   ELSE run
    /\ UNCHANGED <<rateMap, analysisCache, searchCache>>

\* The 30 s timer of the query race fires.
QueryTimerFires ==
    /\ solo.qTimer = "armed"
    /\ LET decided == race(solo.qRace, "timeout")
           run == [solo EXCEPT !.qTimer = "fired", !.qRace = decided]
       IN  solo' = IF decided # solo.qRace THEN AfterQueryRace(run, decided, <<>>) ELSE run
    /\ UNCHANGED <<rateMap, analysisCache, searchCache>>

\* braveSearch after fetchR, for a response that is not OK and for a throw of
\* fetchR (its last attempt failed or was aborted by its timer): [] is returned,
\* and the handler goes on to the rewrite call.  With an OK response the body is
\* read next.
FetchSettles(outcome) ==
    /\ solo.pc = "search" /\ solo.fetch = "fetching"
    /\ solo' = IF outcome = "ok" THEN [solo EXCEPT !.fetch = "body"]
               ELSE SoloToRewrite([solo EXCEPT !.fetch = "done"])
    /\ UNCHANGED <<rateMap, analysisCache, searchCache>>

\* await r.json() ends, with a body that is mapped and stored or with a throw.
BodyRead(outcome) ==
    /\ solo.pc = "search" /\ solo.fetch = "body"
    /\ LET end == searchSettle(outcome, Found("brave", 1))
       IN  searchCache' = IF end.store
                          THEN cacheSet(searchCache, searchKey("brave", QueryText(1)),
                                        end.ret, now)
                          ELSE searchCache
    /\ solo' = SoloToRewrite([solo EXCEPT !.fetch = "done"])
    /\ UNCHANGED <<rateMap, analysisCache>>

\* The handler after the race of the rewrite call is decided.
AfterRewriteRace(run, decided) ==
    IF afterRewrite(decided).status = 200
    THEN Respond([run EXCEPT !.result = <<[by |-> 0, widgetsProtected |-> 1]>>,
                             !.trace = @ \o <<"WidgetRestore", "CacheStore">>], 200, "none")
    ELSE SoloCatch(run, decided)

RewriteRaceDecided(run, decided) ==
    /\ solo' = IF decided # solo.rwRace THEN AfterRewriteRace(run, decided) ELSE run
    /\ analysisCache' =
           IF decided # solo.rwRace /\ afterRewrite(decided).store
           THEN cacheSet(analysisCache, SoloKey, [by |-> 0, widgetsProtected |-> 1], now)
           ELSE analysisCache

\* The rewrite call settles, with a text or a rejection, before its timer or
\* after it.
RewriteCallSettles(outcome) ==
    /\ solo.rwCall = "pending"
    /\ LET decided == race(solo.rwRace, outcome)
       IN  RewriteRaceDecided([solo EXCEPT !.rwCall = "settled", !.rwRace = decided], decided)
    /\ UNCHANGED <<rateMap, searchCache>>

\* The 120 s timer of the rewrite race fires.
RewriteTimerFires ==
    /\ solo.rwTimer = "armed"
    /\ LET decided == race(solo.rwRace, "timeout")
       IN  RewriteRaceDecided([solo EXCEPT !.rwTimer = "fired", !.rwRace = decided], decided)
    /\ UNCHANGED <<rateMap, searchCache>>

(***************************************************************************)
(* The stores and the rate map beside their unswept copies                 *)
(*                                                                         *)
(* unsweptCaches and unsweptRate take every write that the program makes   *)
(* to the three stores and to rateMap, and no cleanup pass: they are what  *)
(* the maps would hold if neither setInterval callback existed.            *)
(***************************************************************************)
UnsweptOf(store) == unsweptCaches[store]

\* The value that is written to a store.
StoredIn(store) == CASE store = "blog" -> [ver |-> 0]
                     [] store = "search" -> "results1"
                     [] store = "analysis" -> "analysis1"

\* cacheSet on a store and on its unswept copy.
ShadowedSet(store, key, data) ==
    /\ CacheSetCall(store, key, data)
    /\ unsweptCaches' = [unsweptCaches EXCEPT ![store] = cacheSet(@, key, data, now)]

\* rateOk on the map and on its unswept copy.
ShadowedRateOk(ip) ==
    /\ RateOkCall(ip)
    /\ unsweptRate' = rateOk(unsweptRate, ip, now).map

(***************************************************************************)
(* The page loop of fetchAllBlogs                                          *)
(*                                                                         *)
(* One call after the other of fetchAllBlogs for one collection, with the  *)
(* items of the pages on record: the cache check, the loop over the pages  *)
(* with its 300 ms pause, the dedup, cacheSet and the return, or the       *)
(* throw.  An item is its id and the place it has in the array `items`     *)
(* (which tells two items of the same id apart).  A page holds up to       *)
(* PAGE_LIMIT items; the limit of the program, 100, is scaled to 2.        *)
(***************************************************************************)
PAGE_LIMIT == 2
ItemIds == {"a", "b", "c"}

\* The id sequences a page can carry.
Batches == UNION {[1..n -> ItemIds] : n \in 0..PAGE_LIMIT}

\* items.push(...batch): the items of a page, placed after those already held.
pushed(items, batch) ==
    items \o [j \in 1..Len(batch) |-> [id |-> batch[j], at |-> Len(items) + j]]

\* items.filter(i => { if (seen.has(i.id)) return false; seen.add(i.id); return true; })
RECURSIVE filterSeen_keepsLast(_, _, _)
filterSeen_keepsLast(items, seen, unique) ==
    IF items = <<>> THEN unique
    ELSE filterSeen_keepsLast(Tail(items), seen \cup {Head(items).id},
                              SelectSeq(unique, LAMBDA i : i.id # Head(items).id)
                                  \o <<Head(items)>>)

RECURSIVE filterSeen(_, _, _)
filterSeen(items, seen, unique) ==
    IF items = <<>> THEN unique
    ELSE IF Head(items).id \in seen THEN filterSeen(Tail(items), seen, unique)
    ELSE filterSeen(Tail(items), seen \cup {Head(items).id}, Append(unique, Head(items)))

\* if (batch.length < 100) break;
lastPage_atLimit(batch) == Len(batch) <= PAGE_LIMIT

lastPage(batch) == Len(batch) < PAGE_LIMIT

PgIdle == [pc |-> "idle", offset |-> 0, asked |-> <<>>, items |-> <<>>, end |-> "none",
           ret |-> <<>>, before |-> <<>>]

\* fetchAllBlogs is called: the cached listing is returned, or the loop starts
\* and asks for the page at offset 0.  `before` is the cache entry at the call.
PagesCall ==
    /\ pg.pc \in {"idle", "done"}
    /\ LET cached == cacheGet(blogCache, "c1", BLOG_CACHE_TTL, now)
       IN  pg' = IF cached # Null
                 THEN [PgIdle EXCEPT !.pc = "done", !.end = "hit", !.ret = cached[1],
                                     !.before = blogCache["c1"]]
                 ELSE [PgIdle EXCEPT !.pc = "page", !.asked = <<0>>,
                                     !.before = blogCache["c1"]]
    /\ UNCHANGED <<now, ticks, blogCache>>

\* fetchR returns an OK response and its body is read: the items are pushed; a
\* short page ends the loop (dedup, cacheSet, return), a full one adds the page
\* size to the offset and starts the pause.
PageArrives(batch) ==
    /\ pg.pc = "page"
    /\ LET items == pushed(pg.items, batch)
           unique == filterSeen(items, {}, <<>>)
       IN  IF lastPage(batch)
           THEN /\ pg' = [pg EXCEPT !.pc = "done", !.items = items, !.end = "fetched",
                                    !.ret = unique]
                /\ blogCache' = cacheSet(blogCache, "c1", unique, now)
           ELSE /\ Len(pg.asked) < MaxPages
                /\ pg' = [pg EXCEPT !.pc = "pause", !.items = items,
                                    !.offset = @ + PAGE_LIMIT]
                /\ UNCHANGED blogCache
    /\ UNCHANGED <<now, ticks>>

\* The pause is over: the page at the new offset is asked for.
PauseOver ==
    /\ pg.pc = "pause"
    /\ pg' = [pg EXCEPT !.pc = "page", !.asked = Append(@, pg.offset)]
    /\ UNCHANGED <<now, ticks, blogCache>>

\* fetchR returns a non-OK response: the text of its body is read for the message
\* of the error that is thrown.
PageNotOk ==
    /\ pg.pc = "page"
    /\ pg' = [pg EXCEPT !.pc = "errText"]
    /\ UNCHANGED <<now, ticks, blogCache>>

\* The fetch throws: fetchR or the reading of a body has thrown, or the text of
\* a non-OK response has been read.
PageThrows ==
    /\ pg.pc \in {"page", "errText"}
    /\ pg' = [pg EXCEPT !.pc = "done", !.end = "thrown"]
    /\ UNCHANGED <<now, ticks, blogCache>>

\* Between two calls the clock passes the TTL of the cached listing.
PagesTick ==
    /\ pg.pc = "done"
    /\ ticks < MaxTicks
    /\ blogCache["c1"] # NoEntry
    /\ cacheGet(blogCache, "c1", BLOG_CACHE_TTL, now) # Null
    /\ now' = now + BLOG_CACHE_TTL + 1
    /\ ticks' = ticks + 1
    /\ UNCHANGED <<pg, blogCache>>

(***************************************************************************)
(* The text taken from a response of the LLM service                       *)
(*                                                                         *)
(* The content of a response is a sequence of typed blocks; a block of     *)
(* type text has a text, a block of another type (thinking, tool_use) has  *)
(* no property of that name.  Both stages of the handler read              *)
(* content[0].text and call a string method on it.                         *)
(***************************************************************************)
Blocks == {[type |-> "text", text |-> <<"a">>], [type |-> "text", text |-> <<"b">>],
           [type |-> "thinking", text |-> <<>>]}

Contents == UNION {[1..n -> Blocks] : n \in 1..MaxBlocks}

\* The text blocks of a response joined in order (what /api/analyze of the
\* first revision does: for each block, if its type is text, append its text).
RECURSIVE joinText(_)
joinText(content) ==
    IF content = <<>> THEN <<>>
    ELSE (IF Head(content).type = "text" THEN Head(content).text ELSE <<>>)
         \o joinText(Tail(content))

\* res.content[0].text, and whether the string method called on it throws a
\* TypeError (it is undefined when the first block is not a text block).
firstText(content) ==
    IF content[1].type = "text" THEN [threw |-> FALSE, text |-> content[1].text]
    ELSE [threw |-> TRUE, text |-> <<>>]

Unread(content) == [content |-> content, stage |-> "none", threw |-> FALSE, text |-> <<>>]

\* The query stage reads the response: qRes.content[0].text.replace(...) in the
\* try block, qRes.content[0].text.match(...) in its catch block.
QueryStageReads ==
    /\ resp.stage = "none"
    /\ resp' = [resp EXCEPT !.stage = "query", !.threw = firstText(resp.content).threw,
                            !.text = firstText(resp.content).text]

\* The rewrite stage reads the response: let updated = rwRes.content[0].text;
\* updated.startsWith(...).
RewriteStageReads ==
    /\ resp.stage = "none"
    /\ resp' = [resp EXCEPT !.stage = "rewrite", !.threw = firstText(resp.content).threw,
                            !.text = firstText(resp.content).text]

\* The next response comes.
NextResponse ==
    /\ resp.stage # "none"
    /\ \E content \in Contents : resp' = Unread(content)

(***************************************************************************)
(* The listing proxy guarded by blogCache.isRefreshing (server.js)         *)
(*                                                                         *)
(* One cache object for one collection, with the flag isRefreshing, and    *)
(* the handlers of GET /api/webflow under way: list requests, requests for *)
(* a single item, and calls of backgroundRefreshCache.  A handler runs     *)
(* from one await to the next.  fetchAllBlogsFromWebflow and the request   *)
(* for a single item use fetch without a timeout, so a fetch can outlast   *)
(* the three minutes a waiting request waits.                              *)
(***************************************************************************)
Handlers == 1..MaxReqs

NewHandler == [pc |-> "new", kind |-> "none", status |-> 0, xcache |-> "none"]

ProxyInit == [isRefreshing |-> FALSE, valid |-> FALSE, h |-> [x \in Handlers |-> NewHandler]]

Free(x) == proxy.h[x].pc \in {"new", "done"}

\* blogCache.isRefreshing = true; await fetchAllBlogsFromWebflow(...)
startFetch(p, x, kind) ==
    [p EXCEPT !.isRefreshing = TRUE, !.h[x] = [NewHandler EXCEPT !.pc = "fetch", !.kind = kind]]

\* A list request arrives: a valid cache is served; with the flag set the
\* handler goes into its wait loop; otherwise it sets the flag and fetches.
ListArrives(x) ==
    /\ Free(x)
    /\ proxy' = IF proxy.valid
                THEN [proxy EXCEPT !.h[x] = [NewHandler EXCEPT !.pc = "done", !.kind = "list",
                                                               !.status = 200, !.xcache = "HIT"]]
                ELSE IF proxy.isRefreshing
                THEN [proxy EXCEPT !.h[x] = [NewHandler EXCEPT !.pc = "wait", !.kind = "list"]]
                ELSE startFetch(proxy, x, "list")

\* The wait loop ends: the flag is down, or three minutes have passed (timedOut).
\* With a valid cache the handler serves it; otherwise it sets the flag and fetches.
WaitEnds(x, timedOut) ==
    /\ proxy.h[x].pc = "wait"
    /\ ~proxy.isRefreshing \/ timedOut
    /\ proxy' = IF proxy.valid
                THEN [proxy EXCEPT !.h[x].pc = "done", !.h[x].status = 200,
                                   !.h[x].xcache = "WAIT-HIT"]
                ELSE startFetch(proxy, x, "list")

\* fetchAllBlogsFromWebflow of a handler ends: the listing is stored and sent, or
\* the error goes to the catch block; on both paths the flag is put down.
FetchEnds(x, ok) ==
    /\ proxy.h[x].pc = "fetch"
    /\ proxy' = [proxy EXCEPT !.isRefreshing = FALSE,
                              !.valid = IF ok THEN TRUE ELSE @,
                              !.h[x].pc = "done",
                              !.h[x].status = IF ok THEN 200
                                              ELSE IF proxy.h[x].kind = "list" THEN 500 ELSE 0,
                              !.h[x].xcache = IF ok /\ proxy.h[x].kind = "list" THEN "MISS"
                                              ELSE "none"]

\* A request for a single item arrives and awaits its fetch.
ItemArrives(x) ==
    /\ Free(x)
    /\ proxy' = [proxy EXCEPT !.h[x] = [NewHandler EXCEPT !.pc = "item", !.kind = "item"]]

\* The request for a single item ends: the answer is passed on, or fetch or the
\* reading of the body throws and the catch block of the handler runs, which
\* puts the flag down.
ItemEnds(x, ok) ==
    /\ proxy.h[x].pc = "item"
    /\ proxy' = [proxy EXCEPT !.isRefreshing = IF ok THEN @ ELSE FALSE,
                              !.h[x].pc = "done",
                              !.h[x].status = IF ok THEN 200 ELSE 500]

\* backgroundRefreshCache is called: it returns when the flag is set, and sets
\* the flag and fetches otherwise.
BackgroundRefresh(x) ==
    /\ Free(x)
    /\ proxy' = IF proxy.isRefreshing
                THEN [proxy EXCEPT !.h[x] = [NewHandler EXCEPT !.pc = "done",
                                                               !.kind = "background"]]
                ELSE startFetch(proxy, x, "background")

\* The cached listing becomes older than CACHE_DURATION.
ProxyExpires ==
    /\ proxy.valid
    /\ proxy' = [proxy EXCEPT !.valid = FALSE]

(***************************************************************************)
(* A search repeated                                                       *)
(*                                                                         *)
(* braveSearch and googleSearch called for one query and one count, one    *)
(* call after the other, with an upstream that lists results, lists none,  *)
(* or fails, while the clock goes to the TTL of the search cache and past  *)
(* it.                                                                     *)
(***************************************************************************)
\* What upstream can list for the query: its results, or nothing.
Listings(prov) == {Listed(prov, "Aa", 3), <<>>}

\* fetchR and the reading of the body end, with the list that the body maps to
\* when all went well.
RepeatSettles(outcome, found) ==
    /\ look.pc = "pending"
    /\ LET end == searchSettle(outcome, found)
       IN  /\ searchCache' = IF end.store
                             THEN cacheSet(searchCache,
                                           searchKey(look.prov, LookupText(look.q)),
                                           end.ret, now)
                             ELSE searchCache
           /\ look' = [look EXCEPT !.pc = "idle", !.ret = end.ret,
                                   !.st = IF outcome = "ok" THEN "ok" ELSE "failed"]
    /\ UNCHANGED <<now, ticks>>

\* Between two calls the clock advances, by the TTL of the search cache or by a
\* millisecond.
RepeatTick(d) ==
    /\ look.pc = "idle"
    /\ ticks < MaxTicks
    /\ now' = now + d
    /\ ticks' = ticks + 1
    /\ UNCHANGED <<look, searchCache>>

(***************************************************************************)
(* Specifications                                                          *)
(***************************************************************************)
Init ==
    /\ now = 0
    /\ ticks = 0
    /\ RateInit
    /\ FetchInit
    /\ CacheInit
    /\ WidgetInit({<<>>})
    /\ ListInit
    /\ SmartInit
    /\ UnitInit
    /\ ShadowInit

\* The same, with the content of the request drawn from the inputs.
InitWidgets ==
    /\ now = 0
    /\ ticks = 0
    /\ RateInit
    /\ FetchInit
    /\ CacheInit
    /\ WidgetInit(Inputs(MaxPieces))
    /\ ListInit
    /\ SmartInit
    /\ UnitInit
    /\ ShadowInit

RateNext ==
    \/ \E ip \in Clients : RateOkCall(ip) /\ UNCHANGED <<now, ticks, fetchVars, cacheVars, widgetVars, listVars, smartVars, unitVars, shadowVars>>
    \/ RateSweep /\ UNCHANGED <<now, ticks, fetchVars, cacheVars, widgetVars, listVars, smartVars, unitVars, shadowVars>>
    \/ RateTick /\ UNCHANGED <<rateVars, fetchVars, cacheVars, widgetVars, listVars, smartVars, unitVars, shadowVars>>

SpecRate == Init /\ [][RateNext]_vars

FetchNext ==
    \/ \E n \in 1..MaxRetries : FetchRCall(n) /\ UNCHANGED <<now, ticks, rateVars, cacheVars, widgetVars, listVars, smartVars, unitVars, shadowVars>>
    \/ \E s \in Statuses : FetchResolves(s) /\ UNCHANGED <<now, ticks, rateVars, cacheVars, widgetVars, listVars, smartVars, unitVars, shadowVars>>
    \/ \E e \in Failures : FetchRejects(e) /\ UNCHANGED <<now, ticks, rateVars, cacheVars, widgetVars, listVars, smartVars, unitVars, shadowVars>>
    \/ BackoffElapses /\ UNCHANGED <<now, ticks, rateVars, cacheVars, widgetVars, listVars, smartVars, unitVars, shadowVars>>

SpecFetch == Init /\ [][FetchNext]_vars

CacheNext ==
    \/ \E store \in Stores : \E key \in KeysOf(store) : \E data \in DataOf(store) :
           CacheSetCall(store, key, data) /\ UNCHANGED <<now, ticks, rateVars, fetchVars, widgetVars, listVars, smartVars, unitVars, shadowVars>>
    \/ \E store \in Stores : \E key \in KeysOf(store) :
           CacheGetCall(store, key) /\ UNCHANGED <<now, ticks, rateVars, fetchVars, widgetVars, listVars, smartVars, unitVars, shadowVars>>
    \/ CacheSweep /\ UNCHANGED <<now, ticks, rateVars, fetchVars, widgetVars, listVars, smartVars, unitVars, shadowVars>>
    \/ CacheTick /\ UNCHANGED <<rateVars, fetchVars, cacheVars, widgetVars, listVars, smartVars, unitVars, shadowVars>>

SpecCache == Init /\ [][CacheNext]_vars

WidgetNext ==
    \/ Protect /\ UNCHANGED <<now, ticks, rateVars, fetchVars, cacheVars, listVars, smartVars, unitVars, shadowVars>>
    \/ \E move \in LlmMoves : Rewrite(move) /\ UNCHANGED <<now, ticks, rateVars, fetchVars, cacheVars, listVars, smartVars, unitVars, shadowVars>>
    \/ Restore /\ UNCHANGED <<now, ticks, rateVars, fetchVars, cacheVars, listVars, smartVars, unitVars, shadowVars>>

SpecWidgets == InitWidgets /\ [][WidgetNext]_vars

\* The listing proxy.  Client ipA has used 29 of its 30 requests of the window
\* that began at time 0 (requests answered 400, which touch nothing else), and the
\* listing of a collection is either not cached or was cached at time 0 by a
\* request that has been answered.
InitListing ==
    /\ now = 0
    /\ ticks = 0
    /\ rateMap = [ip \in Clients |-> IF ip = "ipA"
                                     THEN [count |-> RATE_MAX - 1, reset |-> RATE_WINDOW]
                                     ELSE NoRecord]
    /\ rateRet = NoCall
    /\ FetchInit
    /\ blogCache \in [Collections -> {NoEntry, <<[data |-> [ver |-> 0], ts |-> 0]>>}]
    /\ searchCache = [k \in SearchKeys |-> NoEntry]
    /\ analysisCache = [k \in ContentKeys |-> NoEntry]
    /\ cacheRet = NoGet
    /\ WidgetInit({<<>>})
    /\ ListInit
    /\ SmartInit
    /\ UnitInit
    /\ ShadowInit

ListFrame == UNCHANGED <<ticks, rateRet, fetchVars, searchCache, analysisCache, cacheRet,
                         widgetVars, smartVars, unitVars, shadowVars>>

ListNext ==
    \/ \E r \in ReqIds, ip \in Clients, c \in Collections, valid \in BOOLEAN :
           GetArrives(r, ip, c, valid) /\ ListFrame
    \/ \E r \in ReqIds, ip \in Clients, c \in Collections, valid \in BOOLEAN :
           PatchArrives(r, ip, c, valid) /\ ListFrame
    \/ \E P \in PromIds, outcome \in {"full", "short", "Error", "AbortError"} :
           PageAnswers(P, outcome) /\ ListFrame
    \/ RunMicrotask /\ ListFrame
    \/ \E r \in ReqIds : SiteAnswers(r) /\ ListFrame
    \/ \E r \in ReqIds : UpstreamApplies(r) /\ ListFrame
    \/ \E r \in ReqIds, outcome \in {"ok", "notOk", "AbortError"} :
           PatchAnswers(r, outcome) /\ ListFrame
    \/ ListSweep /\ ListFrame
    \/ ListTick /\ ListFrame

SpecListing == InitListing /\ [][ListNext]_vars

\* The search step of a run: a list of up to MaxQueries queries, with or without
\* each provider's credentials; what brave has for the first query was cached by
\* a run at time 0.
InitSearch ==
    /\ now = 0
    /\ ticks = 0
    /\ RateInit
    /\ FetchInit
    /\ blogCache = [k \in Collections |-> NoEntry]
    /\ searchCache = [key \in SearchCacheKeys |->
                          IF key = searchKey("brave", QueryText(1))
                          THEN <<[data |-> Found("brave", 1), ts |-> 0]>> ELSE NoEntry]
    /\ analysisCache = [k \in ContentKeys |-> NoEntry]
    /\ cacheRet = NoGet
    /\ WidgetInit({<<>>})
    /\ ListInit
    /\ runs = <<>>
    /\ qgen = <<>>
    /\ srch \in {SearchIdle(n, bk, gg) : n \in 0..MaxQueries, bk \in BOOLEAN, gg \in BOOLEAN}
    /\ UnitInit
    /\ ShadowInit

SearchFrame == UNCHANGED <<now, ticks, rateVars, fetchVars, blogCache, analysisCache, cacheRet,
                           widgetVars, listVars, runs, qgen, unitVars, shadowVars>>

SearchNext ==
    \/ SearchBegins /\ SearchFrame
    \/ \E k \in 1..MaxQueries, prov \in {"brave", "google"}, outcome \in Outcomes :
           CallSettles(k, prov, outcome) /\ SearchFrame
    \/ DelayElapses /\ SearchFrame

SpecSearch == InitSearch /\ [][SearchNext]_vars

\* The parse of one answer of the query-generation call, for every text of up to
\* MaxTokens tokens.
InitParse ==
    /\ now = 0
    /\ ticks = 0
    /\ RateInit
    /\ FetchInit
    /\ CacheInit
    /\ WidgetInit({<<>>})
    /\ ListInit
    /\ runs = <<>>
    /\ srch = <<>>
    /\ qgen \in {QgenAwaiting(text) : text \in Texts(MaxTokens)}
    /\ UnitInit
    /\ ShadowInit

ParseNext ==
    QueriesParsed /\ UNCHANGED <<now, ticks, rateVars, fetchVars, cacheVars, widgetVars,
                                  listVars, runs, srch, unitVars, shadowVars>>

SpecParse == InitParse /\ [][ParseNext]_vars

\* The smartcheck pipeline.  Client ipA has used the 30 requests of the window
\* that began at time 0; the caches are empty.
InitSmart ==
    /\ now = 0
    /\ ticks = 0
    /\ rateMap = [ip \in Clients |-> IF ip = "ipA"
                                     THEN [count |-> RATE_MAX, reset |-> RATE_WINDOW]
                                     ELSE NoRecord]
    /\ rateRet = NoCall
    /\ FetchInit
    /\ blogCache = [k \in Collections |-> NoEntry]
    /\ searchCache = [key \in SearchCacheKeys |-> NoEntry]
    /\ analysisCache = [key \in AnalysisKeys |-> NoEntry]
    /\ cacheRet = NoGet
    /\ WidgetInit({<<>>})
    /\ ListInit
    /\ runs = RunsInit
    /\ srch = <<>>
    /\ qgen = <<>>
    /\ UnitInit
    /\ ShadowInit

SmartFrame == UNCHANGED <<ticks, rateRet, fetchVars, blogCache, cacheRet, widgetVars, listVars,
                          srch, qgen, unitVars, shadowVars>>

SmartNext ==
    \/ \E r \in RunIds, ip \in Clients, rq \in Requests, valid \in BOOLEAN :
           SmartArrives(r, ip, rq[1], rq[2], valid) /\ SmartFrame
    \/ \E r \in RunIds, outcome \in QueryOutcomes : QueryAnswers(r, outcome) /\ SmartFrame
    \/ \E r \in RunIds, outcome \in Outcomes : SearchEnds(r, outcome) /\ SmartFrame
    \/ \E r \in RunIds, outcome \in {"text"} \cup LlmFailures :
           RewriteAnswers(r, outcome) /\ SmartFrame
    \/ SmartTick /\ SmartFrame

SpecSmart == InitSmart /\ [][SmartNext]_vars

\* The search functions called one after the other, from an empty search cache.
InitLookup ==
    /\ now = 0
    /\ ticks = 0
    /\ RateInit
    /\ FetchInit
    /\ blogCache = [k \in Collections |-> NoEntry]
    /\ searchCache = [key \in LookupKeys |-> NoEntry]
    /\ analysisCache = [k \in ContentKeys |-> NoEntry]
    /\ cacheRet = NoGet
    /\ WidgetInit({<<>>})
    /\ ListInit
    /\ SmartInit
    /\ look = LookIdle
    /\ solo = <<>>
    /\ pg = <<>>
    /\ resp = <<>>
    /\ proxy = <<>>
    /\ ShadowInit

LookupFrame == UNCHANGED <<rateVars, fetchVars, blogCache, analysisCache, cacheRet, widgetVars,
                           listVars, smartVars, solo, pg, resp, proxy, shadowVars>>

LookupNext ==
    \/ \E prov \in Providers, q \in LookupQueries, count \in Counts :
           LookupCall(prov, q, count) /\ LookupFrame
    \/ \E outcome \in Outcomes : LookupSettles(outcome) /\ LookupFrame
    \/ LookupTick /\ LookupFrame

SpecLookup == InitLookup /\ [][LookupNext]_vars

\* One smartcheck request.  Client ipA has used the 30 requests of its window;
\* the result cache holds a result for the request's key, or nothing.
InitSolo ==
    /\ now = 0
    /\ ticks = 0
    /\ rateMap = [ip \in Clients |-> IF ip = "ipA"
                                     THEN [count |-> RATE_MAX, reset |-> RATE_WINDOW]
                                     ELSE NoRecord]
    /\ rateRet = NoCall
    /\ FetchInit
    /\ blogCache = [k \in Collections |-> NoEntry]
    /\ searchCache = [key \in SearchCacheKeys |-> NoEntry]
    /\ analysisCache \in {[key \in AnalysisKeys |-> NoEntry],
                          [key \in AnalysisKeys |->
                               IF key = SoloKey
                               THEN <<[data |-> [by |-> 0, widgetsProtected |-> 1], ts |-> 0]>>
                               ELSE NoEntry]}
    /\ cacheRet = NoGet
    /\ WidgetInit({<<>>})
    /\ ListInit
    /\ SmartInit
    /\ look = <<>>
    /\ solo = SoloNew
    /\ pg = <<>>
    /\ resp = <<>>
    /\ proxy = <<>>
    /\ ShadowInit

SoloFrame == UNCHANGED <<now, ticks, rateRet, fetchVars, blogCache, cacheRet, widgetVars,
                         listVars, smartVars, look, pg, resp, proxy, shadowVars>>

SoloNext ==
    \/ \E ip \in Clients, f \in Fields : SoloArrives(ip, f) /\ SoloFrame
    \/ \E outcome \in QueryOutcomes : QueryCallSettles(outcome) /\ SoloFrame
    \/ QueryTimerFires /\ SoloFrame
    \/ \E outcome \in Outcomes \ {"malformed"} : FetchSettles(outcome) /\ SoloFrame
    \/ \E outcome \in {"ok", "malformed"} : BodyRead(outcome) /\ SoloFrame
    \/ \E outcome \in {"text", "Error"} : RewriteCallSettles(outcome) /\ SoloFrame
    \/ RewriteTimerFires /\ SoloFrame

SpecSolo == InitSolo /\ [][SoloNext]_vars

\* The timers fire and fetchR ends (by a response or by its abort timers and its
\* bounded attempts); nothing makes an LLM call settle or a body end.
SoloFairness ==
    /\ WF_vars(QueryTimerFires /\ SoloFrame)
    /\ WF_vars(RewriteTimerFires /\ SoloFrame)
    /\ WF_vars(\E outcome \in Outcomes \ {"malformed"} : FetchSettles(outcome) /\ SoloFrame)

SpecSoloLive == SpecSolo /\ SoloFairness

\* The entry of the three rate-limited handlers: requests to GET /api/webflow,
\* PATCH /api/webflow and POST /api/smartcheck arrive, each running to its first
\* await or its answer, with the call of rateOk on record.  Client ipA has used
\* the 30 requests of its window; a listing and a pipeline result may be cached.
InitEntry ==
    /\ now = 0
    /\ ticks = 0
    /\ rateMap = [ip \in Clients |-> IF ip = "ipA"
                                     THEN [count |-> RATE_MAX, reset |-> RATE_WINDOW]
                                     ELSE NoRecord]
    /\ rateRet = NoCall
    /\ FetchInit
    /\ blogCache \in [Collections -> {NoEntry, <<[data |-> [ver |-> 0], ts |-> 0]>>}]
    /\ searchCache = [key \in SearchCacheKeys |-> NoEntry]
    /\ analysisCache \in {[key \in AnalysisKeys |-> NoEntry],
                          [key \in AnalysisKeys |->
                               IF key = SoloKey
                               THEN <<[data |-> [by |-> 0, widgetsProtected |-> 1], ts |-> 0]>>
                               ELSE NoEntry]}
    /\ cacheRet = NoGet
    /\ WidgetInit({<<>>})
    /\ ListInit
    /\ SmartInit
    /\ look = <<>>
    /\ solo = SoloNew
    /\ pg = <<>>
    /\ resp = <<>>
    /\ proxy = <<>>
    /\ ShadowInit

\* The call of rateOk(ip) that a handler begins with.
EntryCall(ip) ==
    rateRet' = [ip |-> ip, ret |-> rateOk(rateMap, ip, now).ret, at |-> now,
                before |-> rateMap[ip], after |-> rateMap'[ip]]

EntryListFrame == UNCHANGED <<ticks, fetchVars, searchCache, analysisCache, cacheRet,
                              widgetVars, smartVars, unitVars, shadowVars>>

\* The clock passes the end of the rate window of a client that is at its limit.
EntryTick ==
    /\ mq = <<>>
    /\ \E ip \in Clients : /\ rateMap[ip] # NoRecord /\ now <= rateMap[ip].reset
                           /\ rateMap[ip].count >= RATE_MAX
    /\ now' = now + RATE_WINDOW + 1
    /\ UNCHANGED <<ticks, rateVars, fetchVars, cacheVars, widgetVars, listVars, smartVars,
                   unitVars, shadowVars>>

EntryNext ==
    \/ \E r \in ReqIds, ip \in Clients, c \in Collections, valid \in BOOLEAN :
           GetArrives(r, ip, c, valid) /\ EntryCall(ip) /\ EntryListFrame
    \/ \E r \in ReqIds, ip \in Clients, c \in Collections, valid \in BOOLEAN :
           PatchArrives(r, ip, c, valid) /\ EntryCall(ip) /\ EntryListFrame
    \/ \E ip \in Clients, f \in Fields :
           /\ mq = <<>>
           /\ SoloArrives(ip, f) /\ EntryCall(ip)
           /\ UNCHANGED <<now, ticks, fetchVars, blogCache, cacheRet, widgetVars, listVars,
                          smartVars, look, pg, resp, proxy, shadowVars>>
    \/ RunMicrotask /\ UNCHANGED rateRet /\ EntryListFrame
    \/ EntryTick

SpecEntry == InitEntry /\ [][EntryNext]_vars

\* Reads, writes and cleanup passes of the three stores, with the unswept copies.
InitCacheSweep ==
    /\ now = 0
    /\ ticks = 0
    /\ RateInit
    /\ FetchInit
    /\ CacheInit
    /\ WidgetInit({<<>>})
    /\ ListInit
    /\ SmartInit
    /\ UnitInit
    /\ unsweptCaches = [blog |-> blogCache, search |-> searchCache, analysis |-> analysisCache]
    /\ unsweptRate = <<>>

CacheSweepFrame == UNCHANGED <<rateVars, fetchVars, widgetVars, listVars, smartVars, unitVars,
                               unsweptRate>>

CacheSweepNext ==
    \/ \E store \in Stores : \E key \in KeysOf(store) :
           ShadowedSet(store, key, StoredIn(store)) /\ UNCHANGED <<now, ticks>>
                                                     /\ CacheSweepFrame
    \/ \E store \in Stores : \E key \in KeysOf(store) :
           CacheGetCall(store, key) /\ UNCHANGED <<now, ticks, unsweptCaches>>
                                    /\ CacheSweepFrame
    \/ CacheSweep /\ UNCHANGED <<now, ticks, unsweptCaches>> /\ CacheSweepFrame
    \/ CacheTick /\ UNCHANGED <<cacheVars, unsweptCaches>> /\ CacheSweepFrame

SpecCacheSweep == InitCacheSweep /\ [][CacheSweepNext]_vars

\* Calls of rateOk by one client and cleanup passes of the rate map, with the
\* unswept copy.
InitRateSweep ==
    /\ now = 0
    /\ ticks = 0
    /\ RateInit
    /\ FetchInit
    /\ CacheInit
    /\ WidgetInit({<<>>})
    /\ ListInit
    /\ SmartInit
    /\ UnitInit
    /\ unsweptCaches = <<>>
    /\ unsweptRate = rateMap

RateSweepFrame == UNCHANGED <<fetchVars, cacheVars, widgetVars, listVars, smartVars, unitVars,
                              unsweptCaches>>

RateSweepNext ==
    \/ ShadowedRateOk("ipA") /\ UNCHANGED <<now, ticks>> /\ RateSweepFrame
    \/ RateSweep /\ UNCHANGED <<now, ticks, unsweptRate>> /\ RateSweepFrame
    \/ RateTick /\ UNCHANGED <<rateVars, unsweptRate>> /\ RateSweepFrame

SpecRateSweep == InitRateSweep /\ [][RateSweepNext]_vars

\* Calls of fetchAllBlogs, one after the other, from an empty listing cache.
InitPages ==
    /\ now = 0
    /\ ticks = 0
    /\ RateInit
    /\ FetchInit
    /\ CacheInit
    /\ WidgetInit({<<>>})
    /\ ListInit
    /\ SmartInit
    /\ look = <<>>
    /\ solo = <<>>
    /\ pg = PgIdle
    /\ resp = <<>>
    /\ proxy = <<>>
    /\ ShadowInit

PagesFrame == UNCHANGED <<rateVars, fetchVars, searchCache, analysisCache, cacheRet, widgetVars,
                          listVars, smartVars, look, solo, resp, proxy, shadowVars>>

PagesNext ==
    \/ PagesCall /\ PagesFrame
    \/ \E batch \in Batches : PageArrives(batch) /\ PagesFrame
    \/ PauseOver /\ PagesFrame
    \/ PageNotOk /\ PagesFrame
    \/ PageThrows /\ PagesFrame
    \/ PagesTick /\ PagesFrame

SpecPages == InitPages /\ [][PagesNext]_vars

\* The pause of 300 ms ends, and upstream answers every page it is asked for,
\* in the end with a short one.
PagesFairness ==
    /\ WF_vars(PauseOver /\ PagesFrame)
    /\ SF_vars(\E batch \in Batches : lastPage(batch) /\ PageArrives(batch) /\ PagesFrame)

SpecPagesLive == SpecPages /\ PagesFairness

\* Two smartcheck requests of one client, for the content with a widget or the
\* one without, while seconds pass: the second can arrive while the first is
\* under way (both miss the cache) or after it (a hit).
PairRequests == {<<"w", "K0">>, <<"plain", "K0">>}

InitPair ==
    /\ now = 0
    /\ ticks = 0
    /\ RateInit
    /\ FetchInit
    /\ blogCache = [k \in Collections |-> NoEntry]
    /\ searchCache = [key \in SearchCacheKeys |-> NoEntry]
    /\ analysisCache = [key \in AnalysisKeys |-> NoEntry]
    /\ cacheRet = NoGet
    /\ WidgetInit({<<>>})
    /\ ListInit
    /\ runs = RunsInit
    /\ srch = <<>>
    /\ qgen = <<>>
    /\ UnitInit
    /\ ShadowInit

\* A second passes.
PairTick ==
    /\ ticks < MaxTicks
    /\ now' = now + 1000
    /\ ticks' = ticks + 1
    /\ UNCHANGED <<runs, rateMap, analysisCache, searchCache>>

PairNext ==
    \/ \E r \in RunIds, rq \in PairRequests :
           SmartArrives(r, "ipB", rq[1], rq[2], TRUE) /\ SmartFrame
    \/ \E r \in RunIds, outcome \in QueryOutcomes : QueryAnswers(r, outcome) /\ SmartFrame
    \/ \E r \in RunIds, outcome \in Outcomes : SearchEnds(r, outcome) /\ SmartFrame
    \/ \E r \in RunIds, outcome \in {"text"} \cup LlmFailures :
           RewriteAnswers(r, outcome) /\ SmartFrame
    \/ PairTick /\ UNCHANGED <<rateRet, fetchVars, blogCache, cacheRet, widgetVars, listVars,
                               srch, qgen, unitVars, shadowVars>>

SpecPair == InitPair /\ [][PairNext]_vars

\* The responses of the LLM service, one after the other, each read by one stage;
\* the first is a single block.
InitBlocks ==
    /\ now = 0
    /\ ticks = 0
    /\ RateInit
    /\ FetchInit
    /\ CacheInit
    /\ WidgetInit({<<>>})
    /\ ListInit
    /\ SmartInit
    /\ look = <<>>
    /\ solo = <<>>
    /\ pg = <<>>
    /\ resp \in {Unread(content) : content \in [1..1 -> Blocks]}
    /\ proxy = <<>>
    /\ ShadowInit

BlocksFrame == UNCHANGED <<now, ticks, rateVars, fetchVars, cacheVars, widgetVars, listVars,
                           smartVars, look, solo, pg, proxy, shadowVars>>

BlocksNext ==
    \/ QueryStageReads /\ BlocksFrame
    \/ RewriteStageReads /\ BlocksFrame
    \/ NextResponse /\ BlocksFrame

SpecBlocks == InitBlocks /\ [][BlocksNext]_vars

\* The isRefreshing-guarded proxy, from an empty cache with the flag down.
InitProxy ==
    /\ now = 0
    /\ ticks = 0
    /\ RateInit
    /\ FetchInit
    /\ CacheInit
    /\ WidgetInit({<<>>})
    /\ ListInit
    /\ SmartInit
    /\ look = <<>>
    /\ solo = <<>>
    /\ pg = <<>>
    /\ resp = <<>>
    /\ proxy = ProxyInit
    /\ ShadowInit

ProxyFrame == UNCHANGED <<now, ticks, rateVars, fetchVars, cacheVars, widgetVars, listVars,
                          smartVars, look, solo, pg, resp, shadowVars>>

ProxyNext ==
    \/ \E x \in Handlers : ListArrives(x) /\ ProxyFrame
    \/ \E x \in Handlers, timedOut \in BOOLEAN : WaitEnds(x, timedOut) /\ ProxyFrame
    \/ \E x \in Handlers, ok \in BOOLEAN : FetchEnds(x, ok) /\ ProxyFrame
    \/ \E x \in Handlers : ItemArrives(x) /\ ProxyFrame
    \/ \E x \in Handlers, ok \in BOOLEAN : ItemEnds(x, ok) /\ ProxyFrame
    \/ \E x \in Handlers : BackgroundRefresh(x) /\ ProxyFrame
    \/ ProxyExpires /\ ProxyFrame

SpecProxy == InitProxy /\ [][ProxyNext]_vars

\* The same search repeated, from an empty search cache.
RepeatNext ==
    \/ \E prov \in Providers : LookupCall(prov, "Aa", 3) /\ LookupFrame
    \/ \E outcome \in Outcomes, prov \in Providers :
           \E found \in Listings(prov) :
               prov = look.prov /\ RepeatSettles(outcome, found) /\ LookupFrame
    \/ \E d \in {SEARCH_CACHE_TTL, 1} : RepeatTick(d) /\ LookupFrame

SpecRepeat == InitLookup /\ [][RepeatNext]_vars

(***************************************************************************)
(* Properties of the rate limiter                                          *)
(***************************************************************************)
CalledInOpenWindow == rateRet.ip # "none" /\ rateRet.before # NoRecord
                      /\ rateRet.at <= rateRet.before.reset

\* C6: the count of every client's record is at most RATE_MAX (30) in every
\* reachable state, and a request that arrives in an unexpired window whose count
\* is already at the maximum is rejected (so at most 30 are allowed per window).
C6_CountNeverExceedsMax ==
    /\ \A ip \in Clients : rateMap[ip].count <= RATE_MAX
    /\ (CalledInOpenWindow /\ rateRet.before.count >= RATE_MAX) => ~rateRet.ret
    /\ (CalledInOpenWindow /\ rateRet.ret) => rateRet.after.count = rateRet.before.count + 1

C6_Witness ==
    /\ CalledInOpenWindow
    /\ rateRet.before.count = RATE_MAX
    /\ ~rateRet.ret

\* C7: from a fresh window the calls 1..30 return true and call 31 returns false
\* (the k-th call of a window finds count = k - 1); the first call after the
\* window has elapsed returns true and leaves count = 1, reset = now + RATE_WINDOW.
C7_WindowBoundary ==
    rateRet.ip # "none" =>
        /\ rateRet.before = NoRecord =>
               rateRet.ret /\ rateRet.after = [count |-> 1, reset |-> rateRet.at + RATE_WINDOW]
        /\ (CalledInOpenWindow /\ rateRet.before.count \in 1..(RATE_MAX - 1)) =>
               rateRet.ret /\ rateRet.after = [rateRet.before EXCEPT !.count = @ + 1]
        /\ (CalledInOpenWindow /\ rateRet.before.count = RATE_MAX) => ~rateRet.ret
        /\ (rateRet.before # NoRecord /\ rateRet.at > rateRet.before.reset) =>
               rateRet.ret /\ rateRet.after = [count |-> 1, reset |-> rateRet.at + RATE_WINDOW]

C7_Witness ==
    /\ rateRet.ip # "none"
    /\ rateRet.before.count = RATE_MAX
    /\ rateRet.at > rateRet.before.reset
    /\ rateRet.ret
    /\ rateRet.after.count = 1

(***************************************************************************)
(* Properties of fetchR                                                    *)
(***************************************************************************)
\* C8: a response that an attempt yields, of any status, is returned at once: no
\* attempt and no backoff wait follows it; every further attempt follows a thrown
\* failure (transport error or abort) of the attempt before it.
C8_NoRetryOnResponse ==
    /\ Len(fr.resps) <= 1
    /\ Len(fr.resps) = 1 =>
           /\ fr.pc = "returned"
           /\ fr.status = fr.resps[1]
           /\ Len(fr.errs) = fr.i - 1
           /\ Len(fr.waits) = fr.i - 1
    /\ fr.pc \in {"attempt", "backoff"} => fr.resps = <<>>
    /\ fr.pc = "attempt" => Len(fr.errs) = fr.i - 1
    /\ fr.pc = "backoff" => Len(fr.errs) = fr.i

C8_Witness ==
    /\ fr.pc = "returned"
    /\ fr.status \in {429, 500, 503}
    /\ fr.i < fr.retries

\* C9: the attempts are made one after another and there are at most `retries`
\* of them; the call returns the response of the first attempt that yields one;
\* when every attempt has failed it throws the error of the last attempt, with
\* no wait after that attempt.
C9_BoundedAttempts ==
    /\ fr.pc # "idle" => fr.i \in 1..fr.retries
    /\ fr.pc = "returned" => Len(fr.errs) = fr.i - 1 /\ fr.resps = <<fr.status>>
    /\ Len(fr.errs) = fr.retries /\ fr.pc # "idle" =>
           /\ fr.pc = "threw"
           /\ fr.thrown = fr.errs[fr.retries]
           /\ Len(fr.waits) = fr.retries - 1
    /\ fr.pc = "threw" => Len(fr.errs) = fr.retries

C9_Witness ==
    /\ fr.pc = "threw"
    /\ fr.retries = 3
    /\ fr.errs[1] # fr.errs[3]

\* C10: the wait after failed attempt k (k < retries) is 1000, 2000, 4000 ms for
\* k = 1, 2, 3 and 5000 ms for every later attempt; it never exceeds 5000 ms.
C10_BackoffSchedule ==
    /\ \A k \in 1..Len(fr.waits) :
           /\ fr.waits[k] = (CASE k = 1 -> 1000 [] k = 2 -> 2000 [] k = 3 -> 4000
                               [] OTHER -> 5000)
           /\ fr.waits[k] <= 5000
    /\ fr.pc = "backoff" => Len(fr.waits) = fr.i /\ fr.i < fr.retries
    /\ fr.pc = "attempt" => Len(fr.waits) = fr.i - 1

C10_Witness ==
    /\ Len(fr.waits) >= 4
    /\ fr.waits[4] = 5000

(***************************************************************************)
(* Properties of the listing proxy                                         *)
(***************************************************************************)
Callers(P) == {r \in ReqIds : reqs[r].prom = P}
Pending(c) == {P \in PromIds : promises[P].state = "pending" /\ promises[P].coll = c}

\* C1: of the callers of fetchAllBlogs for one collection that find no valid cache
\* entry before the producer has settled, exactly one starts the producer (at most
\* one producer per collection is pending, and it is the registered in-flight
\* promise); the others get that promise, and all of them receive its listing,
\* or all of them its failure.
C1_SingleProducer ==
    /\ \A c \in Collections :
           /\ Cardinality(Pending(c)) <= 1
           /\ \A P \in Pending(c) : inflight[c] = P
    /\ \A P \in PromIds : promises[P].state # "unused" =>
           /\ Callers(P) = Range(promises[P].waiters)
           /\ {r \in Callers(P) : reqs[r].path = "start"} = {promises[P].owner}
           /\ \A r \in Callers(P) \ {promises[P].owner} : reqs[r].path = "join"
           /\ \A r \in Callers(P) :
                  /\ reqs[r].coll = promises[P].coll
                  /\ promises[P].state = "pending" => reqs[r].pc = "awaitList"
                  /\ reqs[r].pc \in {"awaitSite", "done"} =>
                         IF promises[P].state = "fulfilled"
                         THEN reqs[r].items = promises[P].value
                         ELSE /\ promises[P].state = "rejected"
                              /\ reqs[r].status = catchStatus(promises[P].err)

C1_Witness ==
    \E r1, r2 \in ReqIds :
        /\ r1 # r2
        /\ reqs[r1].prom # 0
        /\ reqs[r1].prom = reqs[r2].prom
        /\ reqs[r1].path = "start" /\ reqs[r2].path = "join"
        /\ reqs[r1].status = 200 /\ reqs[r2].status = 200
        /\ reqs[r1].items = reqs[r2].items /\ reqs[r1].items # <<>>

PatchSucceeds(r) ==
    /\ reqs[r].kind = "patch" /\ reqs[r].pc = "patchApplied"
    /\ reqs'[r].pc = "done" /\ reqs'[r].status = 200

ListingStarts(r, c) ==
    /\ reqs[r].pc = "new"
    /\ reqs'[r].kind = "list" /\ reqs'[r].coll = c /\ reqs'[r].status = 0

\* C5: the step in which a PATCH handler answers 200 leaves no listing-cache entry
\* for its collection; while no fetch for the collection is in flight the entry
\* stays absent, and the next listing request for it that passes the rate and
\* credentials checks gets no cache hit and starts a fetch from upstream.
C5_EvictBeforeRespond ==
    [][ /\ \A r \in ReqIds : PatchSucceeds(r) =>
               /\ blogCache'[reqs[r].coll] = NoEntry
               /\ fetchAllBlogsPath(blogCache', inflight', reqs[r].coll, now') # "hit"
        /\ \A c \in Collections : (blogCache[c] = NoEntry /\ inflight[c] = 0) =>
               /\ blogCache'[c] = NoEntry
               /\ \A r \in ReqIds : ListingStarts(r, c) =>
                      /\ reqs'[r].path = "start"
                      /\ inflight'[c] = reqs'[r].prom
                      /\ promises'[reqs'[r].prom].state = "pending"
      ]_vars

C5_Witness ==
    \E p, r \in ReqIds :
        /\ p < r
        /\ reqs[p].kind = "patch" /\ reqs[p].status = 200 /\ reqs[p].deleted
        /\ reqs[r].kind = "list" /\ reqs[r].coll = reqs[p].coll
        /\ reqs[r].path = "start"
        /\ now = 0

(***************************************************************************)
(* Properties of the search step                                           *)
(***************************************************************************)
Searched == {k \in DOMAIN srch.st : srch.st[k] # NoCalls}

\* C16: at most 8 queries are searched in one run: no query at position 9 or later
\* of the generated list is passed to a search function.
C16_AtMostEightSearched ==
    /\ Cardinality(Searched) <= QUERY_CAP
    /\ \A k \in Searched : k <= QUERY_CAP

\* The searches of a run: one per searched query and provider whose credentials
\* were supplied.
Attempts == Cardinality(Searched)
            * Cardinality({prov \in {"brave", "google"} : HasKey(srch, prov)})

\* C17: at the end of the search step the searches counter equals the number of
\* query x provider searches made, and the result count is the length of the
\* deduplicated list.
C17_SearchesCounted ==
    srch.pc = "done" =>
        /\ srch.calls = Attempts
        /\ srch.searchCount = srch.calls
        /\ Len(srch.unique) = Cardinality({srch.unique[j].url : j \in 1..Len(srch.unique)})

\* The results in the fixed order: query order, brave before google, each provider's
\* own order; and those of them that no earlier one shares its url with.
RECURSIVE InFixedOrder(_)
InFixedOrder(k) ==
    IF k = 0 THEN <<>>
    ELSE InFixedOrder(k - 1)
         \o [j \in 1..Len(srch.ret[k].brave \o srch.ret[k].google) |->
                [title |-> (srch.ret[k].brave \o srch.ret[k].google)[j].title,
                 url |-> (srch.ret[k].brave \o srch.ret[k].google)[j].url,
                 source |-> (srch.ret[k].brave \o srch.ret[k].google)[j].source,
                 query |-> srch.queries[k]]]

FirstOfUrl(flat) ==
    LET keep == {j \in 1..Len(flat) : \A m \in 1..(j - 1) : flat[m].url # flat[j].url}
        RECURSIVE pick(_)
        pick(j) == IF j > Len(flat) THEN <<>>
                   ELSE (IF j \in keep THEN <<flat[j]>> ELSE <<>>) \o pick(j + 1)
    IN  pick(1)

\* C18: the aggregated list has pairwise different urls and holds, for each url, its
\* first occurrence in the fixed order, whatever the order in which the calls of a
\* batch completed.
C18_FirstOccurrenceWins ==
    srch.pc = "done" =>
        /\ \A a, b \in 1..Len(srch.unique) :
               a # b => srch.unique[a].url # srch.unique[b].url
        /\ srch.unique = FirstOfUrl(InFixedOrder(Len(srch.queries)))

C18_Witness ==
    /\ srch.pc = "done"
    /\ Len(srch.unique) >= 3
    /\ \E a, b \in 1..Len(srch.unique) : srch.unique[a].source # srch.unique[b].source
    /\ Len(InFixedOrder(Len(srch.queries))) > Len(srch.unique)
    /\ srch.fails = 1

\* C19: at most BATCH (3) queries have calls outstanding, all of them in the current
\* batch; no call of a later batch is issued before every call of the batches before
\* it has settled; the wait of 500 ms happens between two batches only, never
\* after the last.
C19_BatchBoundsConcurrency ==
    srch.pc \in {"batch", "delay", "done"} =>
        /\ Cardinality({k \in DOMAIN srch.st : Outstanding(srch, k)}) <= BATCH
        /\ \A k \in DOMAIN srch.st :
               /\ Outstanding(srch, k) => srch.pc = "batch" /\ k \in (srch.i + 1)..(srch.i + BATCH)
               /\ k > srch.i + BATCH => srch.st[k] = NoCalls
        /\ srch.delays = srch.i \div BATCH
        /\ srch.pc = "delay" => \E k \in DOMAIN srch.st : k > srch.i + BATCH /\ k <= QUERY_CAP
        /\ srch.pc = "done" /\ Searched # {} =>
               srch.delays = ((Cardinality(Searched) + BATCH - 1) \div BATCH) - 1

C19_Witness ==
    /\ srch.pc = "batch"
    /\ srch.i = BATCH
    /\ srch.delays = 1
    /\ Cardinality({k \in DOMAIN srch.st : Outstanding(srch, k)}) = BATCH

\* C20: a search function returns the empty list for every failed upstream call
\* (thrown failure of fetchR, response that is not OK, malformed body) and for a
\* missing credential; no failure reaches the handler, and the step ends with the
\* results of the calls that succeeded.
C20_SearchNeverThrows ==
    /\ srch.pc # "threw"
    /\ \A k \in DOMAIN srch.st : \A prov \in {"brave", "google"} :
           /\ srch.st[k][prov] \in {"failed", "noKey"} => srch.ret[k][prov] = <<>>
           /\ srch.st[k][prov] = "ok" => srch.ret[k][prov] = Found(prov, k)
    /\ srch.pc = "done" =>
           /\ Len(srch.allResults) = Cardinality(Searched)
           /\ \A k \in Searched :
                  srch.allResults[k].results = srch.ret[k].brave \o srch.ret[k].google

C20_Witness ==
    /\ srch.pc = "done"
    /\ \E k \in DOMAIN srch.st : srch.st[k].brave = "failed" /\ srch.st[k].google = "ok"
    /\ srch.failure = "throws"
    /\ srch.unique # <<>>

(***************************************************************************)
(* Properties of the query parse                                           *)
(***************************************************************************)
\* An array can be recovered from the text when the text without its fences is a
\* JSON array, or its first bracketed part is one.
ArrayRecoverable(text) ==
    \/ jsonParse(stripFences(text)).ok /\ jsonParse(stripFences(text)).kind = "array"
    \/ /\ ~jsonParse(stripFences(text)).ok
       /\ firstBracketed(text) # <<>>
       /\ jsonParse(firstBracketed(text)).ok

\* C15: for every answer text the parse ends with a list of queries, the empty list
\* when no array can be recovered, and the run goes on to the search step: the
\* parse never ends the run in an error.
C15_ParseNeverFails ==
    qgen # <<>> /\ qgen.pc # "awaitQueries" =>
        /\ qgen.pc = "search"
        /\ qgen.kind = "array"
        /\ ~ArrayRecoverable(qgen.text) => qgen.n = 0

(***************************************************************************)
(* Properties of the cache layer                                           *)
(***************************************************************************)
\* C4: an entry written at time T is returned by a get at every time < T + TTL and
\* is absent (null) at every time >= T + TTL, the time T + TTL itself included.
C4_TtlBoundary ==
    (cacheRet.store # "none" /\ cacheRet.entry # NoEntry) =>
        IF cacheRet.at < cacheRet.entry[1].ts + TtlOf(cacheRet.store)
        THEN cacheRet.ret = <<cacheRet.entry[1].data>>
        ELSE cacheRet.ret = Null

(***************************************************************************)
(* Properties of the widget protector                                      *)
(***************************************************************************)
\* C2: protect followed by restore is the identity: when the rewriting service
\* echoes the protected text unchanged, the restored text equals the input exactly.
C2_RoundTrip ==
    (wpc = "restored" /\ llm = "echo") => restored = html

\* C3: after the restore step no placeholder of a captured index remains in the
\* final content, however often the rewriting service repeated it (stated for
\* inputs that hold neither placeholder text nor `$` sequences of their own).
PlainInput == Range(html) \cap (Range(PH) \cup {"$1", "$$", "$&", "$`", "$'"}) = {}

C3_NoPlaceholderRemains ==
    (wpc = "restored" /\ PlainInput) =>
        \A i \in 0..(Len(widgets) - 1) : Placeholder(i) \notin Range(restored)

(***************************************************************************)
(* Properties of the smartcheck pipeline                                   *)
(***************************************************************************)
StageOrder == <<"CacheCheck", "WidgetProtect", "QueryGeneration", "Search", "Rewrite",
                "WidgetRestore", "CacheStore">>

IsPrefix(s, t) == Len(s) <= Len(t) /\ SubSeq(t, 1, Len(s)) = s

\* The stages that a run has entered, its response left out.
StagesOf(run) == SelectSeq(run.trace, LAMBDA st : st # "Response")

LlmStages(run) == SelectSeq(run.trace, LAMBDA st : st \in {"QueryGeneration", "Rewrite"})

WidgetMarkup == {"<script>", "</script>"}

\* The protected text of each content, and the part of it that the query prompt
\* holds.
protectedOf == [c \in ContentIds |-> protectWidgets(Body(c)).html]

excerptOf == [c \in ContentIds |-> substring(protectedOf[c], EXCERPT)]

\* C11: in every run, whatever the other runs do meanwhile, the stages entered
\* so far are an initial part of CacheCheck, WidgetProtect, QueryGeneration,
\* Search, Rewrite, WidgetRestore, CacheStore, the response comes last, and the
\* content put into the prompt of each LLM call is the protected content (its
\* first 4000 characters for the query call), never the raw widgets.
C11_StagesInOrder ==
    \A r \in RunIds :
        LET run == runs[r]
        IN  /\ IsPrefix(StagesOf(run), StageOrder)
            /\ \A j \in 1..Len(run.trace) :
                   run.trace[j] = "Response" <=> (run.pc = "done" /\ j = Len(run.trace))
            /\ Len(run.sent) = Len(LlmStages(run))
            /\ Len(run.sent) >= 1 => run.sent[1] = excerptOf[run.content]
            /\ Len(run.sent) >= 2 => run.sent[2] = protectedOf[run.content]
            /\ \A j \in 1..Len(run.sent) : Range(run.sent[j]) \cap WidgetMarkup = {}

\* A run went through every stage and answered while a run that arrived before
\* it is still waiting for its rewrite.
C11_Witness ==
    \E r, q \in RunIds :
        /\ q < r
        /\ runs[q].pc = "awaitRewrite"
        /\ runs[r].pc = "done" /\ runs[r].status = 200 /\ ~runs[r].fromCache
        /\ StagesOf(runs[r]) = StageOrder
        /\ Len(runs[r].widgets) > 0

Ends(r) == runs[r].pc # "done" /\ runs'[r].pc = "done"

\* C12: a step in which a run ends without success (a failure or timeout of
\* either LLM call, or any thrown error) leaves the pipeline-result cache as it
\* was; the cache changes only in the step of a run whose rewrite succeeded, after
\* its widgets were restored, and what is stored is the whole result it answers.
C12_FailureStoresNothing ==
    [][/\ \A r \in RunIds : (Ends(r) /\ runs'[r].status # 200) =>
                               analysisCache' = analysisCache
       /\ analysisCache' # analysisCache =>
              \E r \in RunIds :
                  /\ runs[r].pc = "awaitRewrite" /\ Ends(r) /\ runs'[r].status = 200
                  /\ StagesOf(runs'[r]) = StageOrder
                  /\ runs'[r].result[1].updatedContent =
                         restoreWidgets(runs[r].sent[2], runs[r].widgets)
                  /\ analysisCache' = cacheSet(analysisCache, runs[r].key,
                                               runs'[r].result[1], now)]_vars

\* One run ended in the timeout of its rewrite call, another in a failure of
\* its query call, and nothing is stored.
C12_Witness ==
    /\ \E r \in RunIds : /\ runs[r].pc = "done" /\ runs[r].status = 408
                         /\ StagesOf(runs[r]) = SubSeq(StageOrder, 1, 5)
    /\ \E q \in RunIds : /\ runs[q].pc = "done" /\ runs[q].status = 500
                         /\ StagesOf(runs[q]) = SubSeq(StageOrder, 1, 3)
    /\ \A key \in AnalysisKeys : analysisCache[key] = NoEntry

\* The result cache holds an entry for the key that is younger than the TTL.
ValidResult(key) ==
    analysisCache[key] # NoEntry /\ now - analysisCache[key][1].ts < ANALYSIS_CACHE_TTL

\* Run r is received in this step, is admitted and has its fields.
Admitted(r) == runs[r].pc = "new" /\ runs'[r].pc # "new" /\ runs'[r].content # "none"

\* C13: a request that finds a valid entry for its key in the pipeline-result
\* cache is answered in the same step with the stored result marked fromCache;
\* it protects no widget, makes no LLM call and no search, none of the three
\* caches is written, and the run does nothing afterwards.
C13_HitShortCircuits ==
    [][/\ \A r \in RunIds :
              (Admitted(r) /\ ValidResult(contentKey[runs'[r].content][runs'[r].kw])) =>
                  /\ runs'[r].pc = "done" /\ runs'[r].status = 200 /\ runs'[r].fromCache
                  /\ runs'[r].result = <<analysisCache[runs'[r].key][1].data>>
                  /\ runs'[r].trace = <<"CacheCheck", "Response">>
                  /\ runs'[r].sent = <<>> /\ runs'[r].widgets = <<>>
                  /\ runs'[r].protected = <<>> /\ runs'[r].searches = 0
                  /\ analysisCache' = analysisCache
                  /\ searchCache' = searchCache
                  /\ blogCache' = blogCache
       /\ \A r \in RunIds : runs[r].pc = "done" => runs'[r] = runs[r]]_vars

\* A request was answered from an entry that an earlier run had stored.
C13_Witness ==
    \E r, q \in RunIds :
        /\ q # r
        /\ runs[r].pc = "done" /\ runs[r].fromCache
        /\ runs[r].content = runs[q].content /\ runs[r].kw = runs[q].kw
        /\ runs[q].status = 200 /\ ~runs[q].fromCache
        /\ runs[r].result = runs[q].result
        /\ analysisCache[runs[r].key] = <<[data |-> runs[q].result[1], ts |-> 0]>>

\* The hash of the complete hashed string of each request.
wholeHash == [c \in ContentIds |-> [k \in KeywordIds |-> hash_wholeString(Hashed(c, k))]]

SameInputs(r, q) == runs[r].content = runs[q].content /\ runs[r].kw = runs[q].kw

Keyed(r) == runs[r].key # <<>>

\* C14: requests with equal content and equal keywords get the same key, and a
\* request answered from the cache has the content and the keywords of the run
\* that stored the result, unless the hashes of their two complete hashed
\* strings collide.
C14_KeyCoversInputs ==
    /\ \A r, q \in RunIds : (Keyed(r) /\ Keyed(q) /\ SameInputs(r, q)) =>
                                runs[r].key = runs[q].key
    /\ \A r \in RunIds :
           runs[r].fromCache =>
               LET q == runs[r].result[1].by
               IN  \/ SameInputs(r, q)
                   \/ wholeHash[runs[r].content][runs[r].kw]
                          = wholeHash[runs[q].content][runs[q].kw]

(***************************************************************************)
(* Properties of the search functions                                      *)
(***************************************************************************)
\* C21: a search answered from the cache returns what a search with the same
\* provider, the same query and the same count stored: the list of that provider
\* for that query, of the length asked for.
C21_KeyedByProviderQueryCount ==
    look.st = "cached" => look.ret = Listed(look.prov, look.q, look.count)

\* The two parts of it, apart: the list is one of the same query (of whatever
\* count), and the list is one of the same count (of whatever query).
AnsweredForSameQuery ==
    look.st = "cached" => \E count \in Counts : look.ret = Listed(look.prov, look.q, count)

AnsweredForSameCount ==
    look.st = "cached" => \E q \in LookupQueries : look.ret = Listed(look.prov, q, look.count)

(***************************************************************************)
(* Properties of one smartcheck request                                    *)
(***************************************************************************)
\* What a step changes of the request once it is answered: the late settling of
\* a call and the firing of a timer, nothing else.
SameButCalls(a, b) ==
    [a EXCEPT !.rwCall = b.rwCall, !.qCall = b.qCall, !.qTimer = b.qTimer,
              !.rwTimer = b.rwTimer] = b

C23_EveryRunResponds ==
    /\ [](solo.responses <= 1)
    /\ (solo.pc # "new") ~> (solo.pc = "done" /\ solo.responses = 1)

\* C27: a request that lacks its content, its title or its LLM credential is
\* answered 400 at once: no cache is read or written for it and no LLM or search
\* call is made.
C27_MissingInputRejected ==
    (solo.pc # "new" /\ solo.fields # AllFields /\ solo.status # 429) =>
        /\ solo.pc = "done" /\ solo.status = 400
        /\ solo.trace = <<"Response">>
        /\ solo.qCall = "none" /\ solo.rwCall = "none" /\ solo.fetch = "none"

(***************************************************************************)
(* Properties of the in-flight map                                         *)
(***************************************************************************)
Settled(P) == promises[P].state \in {"fulfilled", "rejected"}

PendingFor(c) == {P \in PromIds : promises[P].state = "pending" /\ promises[P].coll = c}

FailedFor(c) == {P \in PromIds : promises[P].state = "rejected" /\ promises[P].coll = c}

\* Request r calls fetchAllBlogs in this step and is left waiting for a fetch.
CallsAndWaits(r) == reqs[r].pc = "new" /\ reqs'[r].pc = "awaitList"

\* C24: once the reactions to the settling of a fetch have run, its entry is out
\* of the in-flight map, whether it succeeded or failed, so that the map holds
\* only fetches that are under way and no call still waits for a settled fetch;
\* and a call for a key whose last fetch failed, with none under way, starts a
\* new fetch of its own.
C24_InflightRemoved ==
    /\ [](mq = <<>> =>
            /\ \A c \in Collections :
                   inflight[c] # 0 => inflight[c] \in PendingFor(c)
            /\ \A r \in ReqIds :
                   reqs[r].pc = "awaitList" => ~Settled(reqs[r].prom))
    /\ [][\A r \in ReqIds :
              (CallsAndWaits(r) /\ FailedFor(reqs'[r].coll) # {}
                                /\ PendingFor(reqs'[r].coll) = {}) =>
                  /\ reqs'[r].path = "start"
                  /\ promises'[reqs'[r].prom].owner = r
                  /\ promises'[reqs'[r].prom].state = "pending"
                  /\ inflight'[reqs'[r].coll] = reqs'[r].prom]_vars

\* A fetch of a key failed and was answered, and a later call for the key waits
\* for a fetch that it started.
C24_Witness ==
    /\ mq = <<>>
    /\ \E r, q \in ReqIds :
           /\ reqs[q].pc = "done" /\ reqs[q].status \in {408, 500} /\ reqs[q].kind = "list"
           /\ reqs[q].prom # 0 /\ promises[reqs[q].prom].state = "rejected"
           /\ reqs[r].pc = "awaitList" /\ reqs[r].coll = reqs[q].coll
           /\ reqs[r].path = "start" /\ inflight[reqs[r].coll] = reqs[r].prom
           /\ reqs[r].prom # reqs[q].prom

\* The text in which the first occurrence of ___WIDGET_i___, for every i below
\* the number of fragments, is the fragment of that index, and every other chunk
\* of s is itself.
FirstOccurrencesFilled(s, ws) ==
    LET IsFirst(p) == \E i \in 0..(Len(ws) - 1) :
                          s[p] = Placeholder(i) /\ IndexFrom(s, s[p], 1) = p
        IndexAt(p) == CHOOSE i \in 0..(Len(ws) - 1) : s[p] = Placeholder(i)
        RECURSIVE go(_)
        go(p) == IF p > Len(s) THEN <<>>
                 ELSE (IF IsFirst(p) THEN ws[IndexAt(p) + 1] ELSE <<s[p]>>) \o go(p + 1)
    IN  go(1)

AllPlaceholdersKept ==
    \A i \in 0..(Len(widgets) - 1) : Placeholder(i) \in Range(rewritten)

\* C25: when the rewritten text holds each of the N placeholders at least once,
\* the restored text is the rewritten text with fragment i, verbatim, in place of
\* the first occurrence of ___WIDGET_i___ for every i, the rest unchanged.
C25_RestoreAtFirstOccurrence ==
    (wpc = "restored" /\ AllPlaceholdersKept) =>
        restored = FirstOccurrencesFilled(rewritten, widgets)

\* The same for inputs that hold neither placeholder text nor `$` sequences.
RestoreOfPlainInput ==
    (wpc = "restored" /\ AllPlaceholdersKept /\ PlainInput) =>
        restored = FirstOccurrencesFilled(rewritten, widgets)

\* The position in html of chunk k of the protected text.
PositionInInput(k) == Len(FirstOccurrencesFilled(SubSeq(safe, 1, k - 1), widgets)) + 1

\* C26: for an input without placeholder-like text, the protected text holds the
\* placeholders ___WIDGET_0___ .. ___WIDGET_(N-1)___ once each and in this order;
\* fragment i is the text that the pattern matches in the input where
\* placeholder i stands, so that the input is the protected text with the
\* fragments put back; the pattern matches nowhere in what is left; and N, the
\* number of fragments, is 0 for an input without a match, which is left as is.
C26_ProtectInScanOrder ==
    (wpc # "input" /\ Range(html) \cap Range(PH) = {}) =>
        /\ SelectSeq(safe, LAMBDA ch : ch \in Range(PH)) = SubSeq(PH, 1, Len(widgets))
        /\ FirstOccurrencesFilled(safe, widgets) = html
        /\ \A k \in 1..Len(safe) :
               IF safe[k] \in Range(PH)
               THEN MatchEnd(html, PositionInInput(k)) = PositionInInput(k + 1) - 1
               ELSE MatchEnd(html, PositionInInput(k)) = 0 /\ MatchEnd(safe, k) = 0
        /\ (\A p \in 1..Len(html) : MatchEnd(html, p) = 0) =>
               (Len(widgets) = 0 /\ safe = html)

\* An input of two different fragments was protected.
C26_Witness ==
    /\ wpc = "protected" /\ Range(html) \cap Range(PH) = {}
    /\ Len(widgets) = 2 /\ Len(widgets[1]) > 1 /\ widgets[1] # widgets[2]
    /\ safe = <<Placeholder(0), Placeholder(1)>>

(***************************************************************************)
(* Properties of the entry of the rate-limited handlers                    *)
(***************************************************************************)
\* Client ip has used up its window, which is still open.
AtLimit(ip) ==
    /\ rateMap[ip] # NoRecord
    /\ now <= rateMap[ip].reset
    /\ rateMap[ip].count >= RATE_MAX

ListingEnters(r) == reqs[r].pc = "new" /\ reqs'[r].pc # "new"

SmartEnters == solo.pc = "new" /\ solo'.pc # "new"

\* C28: a request of a client that is at its limit, on GET /api/webflow, on
\* PATCH /api/webflow and on POST /api/smartcheck, is answered 429 in the step
\* of its arrival, and that step reads and writes no cache, leaves the in-flight
\* map, the fetches under way and the upstream alone, and starts no call.
C28_RateLimitBeforeWork ==
    [][((SmartEnters \/ \E r \in ReqIds : ListingEnters(r)) /\ AtLimit(rateRet'.ip)) =>
           /\ \A r \in ReqIds : ListingEnters(r) =>
                  /\ reqs'[r].pc = "done" /\ reqs'[r].status = 429
                  /\ reqs'[r].path = "none" /\ reqs'[r].prom = 0
           /\ SmartEnters =>
                  /\ solo'.pc = "done" /\ solo'.status = 429
                  /\ solo'.trace = <<"Response">>
                  /\ solo'.qCall = "none" /\ solo'.rwCall = "none" /\ solo'.fetch = "none"
           /\ UNCHANGED <<blogCache, searchCache, analysisCache, inflight, promises, mq,
                          upstream>>]_vars

\* With a listing fetch under way, each of the three endpoints has turned a
\* request away.
C28_Witness ==
    /\ \E c \in Collections : inflight[c] # 0
    /\ \E r \in ReqIds : reqs[r].status = 429
    /\ solo.status = 429

(***************************************************************************)
(* Properties of the cleanup passes                                        *)
(***************************************************************************)
PastTtl(store, key) ==
    MapOf(store)[key] # NoEntry /\ now - MapOf(store)[key][1].ts > TtlOf(store)

\* A cleanup pass of the stores is the step that changes a store into what the
\* pass leaves of it.
IsCacheSweep ==
    /\ <<blogCache, searchCache, analysisCache>>' # <<blogCache, searchCache, analysisCache>>
    /\ unsweptCaches' = unsweptCaches

\* A get of a store is the step that records another call of cacheGet on it.
IsCacheGetOf(store) ==
    /\ cacheRet'.store = store
    /\ \/ cacheRet.store # store
       \/ cacheRet'.key # cacheRet.key
       \/ cacheRet'.at # cacheRet.at
       \/ cacheRet'.ret # cacheRet.ret

\* C29: a cleanup pass deletes, in each of the three stores, the entries that
\* are older than the TTL of the store and leaves the others as they are; and at
\* every moment, whatever reads, writes and passes came before, a get of any key
\* returns what it returns from the stores that no pass has touched.
C29_SweepInvisible ==
    /\ [][IsCacheSweep =>
              \A store \in Stores : \A key \in KeysOf(store) :
                  MapOf(store)'[key] = IF PastTtl(store, key) THEN NoEntry
                                       ELSE MapOf(store)[key]]_vars
    /\ [][\A store \in Stores :
              IsCacheGetOf(store) =>
                  cacheRet'.ret = cacheGet(UnsweptOf(store), cacheRet'.key, TtlOf(store), now)]_vars
    /\ [](\A store \in Stores : \A key \in KeysOf(store) :
              cacheGet(MapOf(store), key, TtlOf(store), now)
                  = cacheGet(UnsweptOf(store), key, TtlOf(store), now))

\* A pass has deleted an entry of a store, a get of its key was made after it,
\* and another entry of the same age as its store's TTL is still there.
C29_Witness ==
    /\ \E store \in Stores :
           /\ cacheRet.store = store /\ cacheRet.at = now /\ cacheRet.ret = Null
           /\ MapOf(store)[cacheRet.key] = NoEntry
           /\ UnsweptOf(store)[cacheRet.key] # NoEntry
    /\ \E store \in Stores : \E key \in KeysOf(store) :
           MapOf(store)[key] # NoEntry /\ now - MapOf(store)[key][1].ts = TtlOf(store)

IsRateSweep == rateMap' # rateMap /\ unsweptRate' = unsweptRate

\* C30: a cleanup pass of the rate map removes the records whose reset time is
\* past and no record whose window is open, so that none of the records left is
\* expired; and at every moment, whatever calls and passes came before, rateOk
\* gives each client the answer it gives on the map that no pass has touched.
C30_RateSweepInvisible ==
    /\ [][IsRateSweep =>
              \A ip \in Clients :
                  /\ rateMap'[ip] = IF rateMap[ip] # NoRecord /\ now > rateMap[ip].reset
                                    THEN NoRecord ELSE rateMap[ip]
                  /\ rateMap'[ip] # NoRecord => now <= rateMap'[ip].reset]_vars
    /\ [](\A ip \in Clients :
              rateOk(rateMap, ip, now).ret = rateOk(unsweptRate, ip, now).ret)

\* A pass has removed the record of a client that had used up its window,
\* while the map that no pass has touched still holds it.
C30_Witness ==
    /\ rateMap # unsweptRate
    /\ \E ip \in Clients :
           /\ unsweptRate[ip] # NoRecord /\ unsweptRate[ip].count = RATE_MAX
           /\ rateMap[ip] = NoRecord

(***************************************************************************)
(* Properties of the page loop of fetchAllBlogs                            *)
(***************************************************************************)
IdsOf(items) == {items[j].id : j \in 1..Len(items)}

\* C31: the listing that a fetch stores and returns has pairwise different
\* ids, holds for each id the first item of that id in the order of the pages
\* (the items in that order), and holds every id that a fetched page carried.
C31_ListingDeduplicated ==
    pg.end = "fetched" =>
        /\ blogCache["c1"] # NoEntry /\ blogCache["c1"][1].data = pg.ret
        /\ \A k, l \in 1..Len(pg.ret) : k < l =>
               pg.ret[k].id # pg.ret[l].id /\ pg.ret[k].at < pg.ret[l].at
        /\ \A k \in 1..Len(pg.ret) :
               /\ pg.items[pg.ret[k].at] = pg.ret[k]
               /\ \A j \in 1..Len(pg.items) :
                      pg.items[j].id = pg.ret[k].id => pg.ret[k].at <= j
        /\ IdsOf(pg.ret) = IdsOf(pg.items)

\* A fetch of two pages has ended; the second page repeated an id of the first.
C31_Witness ==
    /\ pg.end = "fetched"
    /\ Len(pg.asked) = 2
    /\ Len(pg.items) = 3
    /\ pg.items[3].id = pg.items[1].id
    /\ pg.items[2].id # pg.items[1].id
    /\ Len(pg.ret) = 2

\* C39: the pages are asked for one at a time at the offsets 0, PAGE_LIMIT,
\* 2 * PAGE_LIMIT, ..., each after the one before it has come in full; the
\* loop goes on after a full page and ends, with the listing stored, at the
\* first short one; a non-OK page is followed by no other request and the fetch
\* that throws leaves the cache entry as it was at the call; and a fetch whose
\* pages upstream answers, in the end with a short one, comes to its end.
C39_PageLoop ==
    /\ [](pg.pc # "idle" =>
            /\ \A k \in 1..Len(pg.asked) : pg.asked[k] = (k - 1) * PAGE_LIMIT
            /\ pg.pc \in {"page", "errText"} =>
                   Len(pg.items) = (Len(pg.asked) - 1) * PAGE_LIMIT
            /\ pg.end = "thrown" => blogCache["c1"] = pg.before
            /\ pg.end = "fetched" =>
                   /\ Len(pg.items) < Len(pg.asked) * PAGE_LIMIT
                   /\ Len(pg.items) >= (Len(pg.asked) - 1) * PAGE_LIMIT)
    /\ [][/\ (pg.pc = "page" /\ Len(pg'.items) = Len(pg.items) + PAGE_LIMIT) =>
                 (pg'.pc = "pause" /\ blogCache' = blogCache)
          /\ (pg.pc = "page" /\ pg'.pc = "page") => pg' = pg
          /\ pg.pc = "errText" =>
                 (pg'.pc \in {"errText", "done"} /\ pg'.asked = pg.asked
                  /\ pg'.end \in {"none", "thrown"} /\ blogCache' = blogCache)]_vars
    /\ (pg.pc \in {"page", "pause"}) ~> (pg.pc \in {"done", "errText"})

\* A second page was asked for after a full first one and was not OK; the fetch
\* has thrown, and the listing cached before the call, now too old, is still there.
C39_Witness ==
    /\ pg.end = "thrown"
    /\ pg.asked = <<0, PAGE_LIMIT>>
    /\ Len(pg.items) = PAGE_LIMIT
    /\ pg.before # NoEntry
    /\ blogCache["c1"] = pg.before

(***************************************************************************)
(* Properties of two pipeline runs                                         *)
(***************************************************************************)
\* Run r ends with success in this step.
Succeeds(r) == runs[r].pc = "awaitRewrite" /\ runs'[r].pc = "done" /\ runs'[r].status = 200

\* C32: a run that ends with success leaves under its key its own result
\* stamped with the time of that step, whatever the store held (so that of two
\* runs with one key the one that ends last has its result in the store), the
\* store changes in no other step, and a get from the time of the stamp to the
\* TTL after it returns the stored value.
C32_LastSetWins ==
    /\ [][\A r \in RunIds :
              Succeeds(r) =>
                  analysisCache'[runs[r].key] = <<[data |-> runs'[r].result[1], ts |-> now]>>]_vars
    /\ [][\A key \in AnalysisKeys :
              analysisCache'[key] # analysisCache[key] =>
                  \E r \in RunIds : Succeeds(r) /\ runs[r].key = key]_vars
    /\ [](\A key \in AnalysisKeys :
              analysisCache[key] # NoEntry =>
                  \A t \in {analysisCache[key][1].ts, now,
                            analysisCache[key][1].ts + ANALYSIS_CACHE_TTL} :
                      cacheGet(analysisCache, key, ANALYSIS_CACHE_TTL, t)
                          = <<analysisCache[key][1].data>>)

\* Both runs had the same key, missed the cache and succeeded; the first to
\* arrive ended a second or more after the other, and its result is in the store.
C32_Witness ==
    /\ \A r \in RunIds : runs[r].pc = "done" /\ runs[r].status = 200 /\ ~runs[r].fromCache
    /\ runs[1].key = runs[2].key
    /\ runs[1].result # runs[2].result
    /\ analysisCache[runs[1].key] = <<[data |-> runs[1].result[1], ts |-> now]>>
    /\ now > 0

\* C33: a run that missed the cache and succeeded has made two LLM calls, the
\* query generation and then the rewrite, each once, also when no query was
\* searched; no run makes more; and for the content without a widget the result
\* reports no widget protected.
C33_TwoLlmCalls ==
    \A r \in RunIds :
        /\ Len(runs[r].sent) <= 2
        /\ (runs[r].pc = "done" /\ runs[r].status = 200 /\ ~runs[r].fromCache) =>
               /\ Len(runs[r].sent) = 2
               /\ LlmStages(runs[r]) = <<"QueryGeneration", "Rewrite">>
               /\ runs[r].content = "plain" => runs[r].result[1].widgetsProtected = 0
               /\ runs[r].content = "w" => runs[r].result[1].widgetsProtected = 1

\* A run for the content without a widget succeeded with an empty query list.
C33_Witness ==
    \E r \in RunIds :
        /\ runs[r].pc = "done" /\ runs[r].status = 200 /\ ~runs[r].fromCache
        /\ runs[r].content = "plain"
        /\ runs[r].n = 0 /\ runs[r].searches = 0
        /\ runs[r].result[1].widgetsProtected = 0
        /\ Len(runs[r].sent) = 2

(***************************************************************************)
(* Properties of the reading of a response                                 *)
(***************************************************************************)
HasTextBlock(content) == \E j \in 1..Len(content) : content[j].type = "text"

\* C34: for a response with at least one text block, at whatever place, the
\* text a stage uses is that of all its text blocks joined in order.
C34_TextBlocksJoined ==
    (resp.stage # "none" /\ HasTextBlock(resp.content)) =>
        (~resp.threw /\ resp.text = joinText(resp.content))

\* The same for the responses that are one text block, alone or followed by
\* blocks of other types.
OneTextBlockFirst ==
    (resp.stage # "none" /\ resp.content[1].type = "text"
     /\ \A j \in 2..Len(resp.content) : resp.content[j].type # "text") =>
        (~resp.threw /\ resp.text = joinText(resp.content))

(***************************************************************************)
(* Properties of the listing proxy after an update                         *)
(***************************************************************************)
\* The PATCH requests for collection c that have been answered with success;
\* each of them has raised the version of the collection by one before its answer.
Confirmed(c) == Cardinality({p \in ReqIds : /\ reqs[p].kind = "patch" /\ reqs[p].coll = c
                                            /\ reqs[p].pc = "done" /\ reqs[p].status = 200})

\* The version of the listing that a listing request for c arriving now is
\* handed by fetchAllBlogs: the cached one, or the one the fetch in flight has
\* read (when it has read its first page); -1 when its listing is yet to be read.
WouldServe(c) ==
    LET path == fetchAllBlogsPath(blogCache, inflight, c, now)
    IN  IF path = "hit" THEN cacheGet(blogCache, c, BLOG_CACHE_TTL, now)[1].ver
        ELSE IF path = "join" /\ promises[inflight[c]].pages > 0
        THEN promises[inflight[c]].ver
        ELSE -1

\* C35: once PATCH requests for c have been answered with success, a listing
\* request for c that arrives is not handed a listing read before one of them:
\* what it is handed is yet to be read or has the version of all of them.
C35_NoListingFromBeforePatch ==
    \A c \in Collections :
        (mq = <<>> /\ Confirmed(c) > 0 /\ WouldServe(c) # -1) => WouldServe(c) >= Confirmed(c)

\* The same while no listing fetch for c is in flight when the PATCH is answered
\* or after it, and none that was in flight has stored its listing since.
NoFetchAcrossPatch(c) ==
    \A P \in PromIds : (promises[P].state # "unused" /\ promises[P].coll = c) =>
                           promises[P].ver >= Confirmed(c)

FreshWithoutFetchInFlight ==
    \A c \in Collections :
        (mq = <<>> /\ Confirmed(c) > 0 /\ WouldServe(c) # -1 /\ NoFetchAcrossPatch(c)) =>
            WouldServe(c) >= Confirmed(c)

(***************************************************************************)
(* Properties of the isRefreshing-guarded proxy                            *)
(***************************************************************************)
Fetching == {x \in Handlers : proxy.h[x].pc = "fetch"}

\* C36: at most one full listing fetch is under way, the flag isRefreshing is
\* up exactly while one is, and a handler leaves its wait loop for a fetch of its
\* own only when no other handler is fetching.
C36_OneFetchAtATime ==
    /\ [](Cardinality(Fetching) <= 1 /\ (proxy.isRefreshing <=> Fetching # {}))
    /\ [][\A x \in Handlers :
              (proxy.h[x].pc = "wait" /\ proxy'.h[x].pc = "fetch") => Fetching = {}]_vars

\* The flag tells whether a fetch is under way, and there is at most one.
FlagGuards == Cardinality(Fetching) <= 1 /\ (proxy.isRefreshing <=> Fetching # {})

\* A step keeps that, unless it is a handler leaving its wait loop after three
\* minutes with the flag still up, or the failure of a request for a single item.
FlagGuardsKept ==
    [][(/\ FlagGuards
        /\ \A x \in Handlers :
               /\ (proxy.h[x].pc = "wait" /\ proxy'.h[x].pc # "wait") => ~proxy.isRefreshing
               /\ (proxy.h[x].pc = "item" /\ proxy'.h[x].pc = "done") =>
                      proxy'.h[x].status = 200)
       => FlagGuards']_vars

(***************************************************************************)
(* Properties of a search repeated                                         *)
(***************************************************************************)
LookKey == searchKey(look.prov, LookupText(look.q))

\* The step in which the search under way ends, and the step in which the
\* search that has ended is called again.
SearchEnding == look.pc = "pending" /\ look'.pc = "idle"
CalledAgain == /\ look.pc = "idle" /\ look.st \in {"ok", "failed"}
               /\ look' # look /\ look'.prov = look.prov /\ now' = now

\* C37: a search that ends after a failure of the call, a non-OK response or a
\* body that cannot be read or mapped leaves the search cache as it is, and one
\* that ends with a mapped list, empty or not, leaves the list under its key;
\* called again, the search goes upstream after a failure and is answered
\* from the cache, with the same list, after a success not older than the TTL.
C37_OnlySuccessCached ==
    [][/\ (SearchEnding /\ look'.st = "failed") => searchCache' = searchCache
       /\ (SearchEnding /\ look'.st = "ok") =>
              searchCache' = [searchCache EXCEPT ![LookKey] =
                                  <<[data |-> look'.ret, ts |-> now]>>]
       /\ (CalledAgain /\ look.st = "failed") => look'.st = "pending"
       /\ (CalledAgain /\ look.st = "ok" /\ now - searchCache[LookKey][1].ts <= SEARCH_CACHE_TTL)
              => (look'.st = "cached" /\ look'.ret = look.ret)]_vars

\* A search that listed nothing was stored, and the same search, called when
\* its entry was exactly as old as the TTL, was answered from the cache.
C37_Witness ==
    /\ look.st = "cached" /\ look.ret = <<>>
    /\ searchCache[LookKey] # NoEntry
    /\ searchCache[LookKey][1].data = <<>>
    /\ now - searchCache[LookKey][1].ts = SEARCH_CACHE_TTL

(***************************************************************************)
(* Properties of the cached field of a listing response                   *)
(***************************************************************************)
Answered(r) == reqs[r].kind = "list" /\ reqs[r].pc = "done" /\ reqs[r].status = 200

\* C38: a listing response says cached: true only for a request that was
\* handed the cache entry valid at its arrival; a request that started the
\* listing fetch or awaited the fetch in flight says cached: false.
C38_CachedOnlyOnHit ==
    \A r \in ReqIds : Answered(r) => (reqs[r].fromCache <=> reqs[r].path = "hit")

\* One half of it: a request served from the cache says cached: true.
HitSaysCached ==
    \A r \in ReqIds : (Answered(r) /\ reqs[r].path = "hit") => reqs[r].fromCache

(***************************************************************************)
(* Properties of the rate limiter: what a call leaves alone               *)
(***************************************************************************)
Denied == rateRet.ip # "none" /\ ~rateRet.ret

\* C40: a denied call of rateOk (count at the maximum in a window that is not
\* over) changes neither the count nor the reset time of the client's record; a
\* call for one client never changes the record of another client; and the first
\* call of a limited client after the end of its window is admitted, with a new
\* record of count 1.
C40_DeniedCallChangesNothing ==
    /\ [](Denied => rateRet.after = rateRet.before)
    /\ []((rateRet.ip # "none" /\ rateRet.before.count = RATE_MAX
              /\ rateRet.at > rateRet.before.reset)
            => (rateRet.ret /\ rateRet.after = [count |-> 1, reset |-> rateRet.at + RATE_WINDOW]))
    /\ [][\A ip \in Clients : RateOkCall(ip) =>
            /\ \A other \in Clients \ {ip} : rateMap'[other] = rateMap[other]
            /\ ~rateRet'.ret => rateMap' = rateMap]_vars

C40_Witness ==
    /\ Denied
    /\ rateRet.before.count = RATE_MAX
    /\ rateRet.at > rateRet.before.reset - RATE_WINDOW
    /\ rateRet.after = rateRet.before
    /\ \E other \in Clients \ {rateRet.ip} : rateMap[other] # NoRecord

====
